---- MODULE Spec2Model ----
(***************************************************************************)
(* State-machine model of the authentication / session-security core:      *)
(*   - the OAuth client-credentials token cache                            *)
(*     (apps/api/src/services/token-cache.service.ts)                      *)
(*   - the shared session-save protocol of the auth drivers                *)
(*     (packages/auth/src/drivers/base.driver.ts)                          *)
(*   - the principal codec, the authorization middleware, the CSRF guard,  *)
(*     the API gateway, the AuthService and the web client's auth store    *)
(* Each component has its own specification; the variables of the other    *)
(* components are left unchanged by its actions.                           *)
(***************************************************************************)
EXTENDS Integers, Naturals, Sequences, FiniteSets, TLC

\* ------------------------------------------------------------------------
\* Bounds of the model
\* ------------------------------------------------------------------------
NumCallers == 2          \* concurrent request handlers calling getAccessToken
MaxFetches == 3          \* token requests issued in one behaviour
MaxNow     == 3          \* clock ticks in one behaviour
MaxSalts == 2          \* distinct tokens derivable from one CSRF secret
MaxSessionIds == 3       \* session identifiers the store can hand out
MaxMeRequests == 2       \* GET /auth/me requests the web client issues

\* ------------------------------------------------------------------------
\* Program constants and input domains
\* ------------------------------------------------------------------------
EXPIRY_BUFFER_MS == 60000
TickMs           == 30000            \* granularity of Date.now() in the model
StartMs          == TickMs           \* Date.now() at start: a positive epoch time

Callers         == 1..NumCallers
FetchIds        == 1..MaxFetches
Tokens          == {"tokA", "tokB"}  \* access_token values the endpoint returns
ExpiresInValues == {30, 60, 120}     \* expires_in values (seconds)
HttpErrors      == {401, 500}        \* non-OK statuses of the token endpoint

SessionIds  == 1..MaxSessionIds
CsrfSecrets == {"secretA", "secretB"}   \* values the CSRF guard provisions
Users       == {"alice", "bob"}         \* principals a driver authenticates
\* what a session callback may report: an Error object or another value
ErrValues   == {[isError |-> TRUE,  msg |-> "store down"],
                [isError |-> FALSE, msg |-> "boom"]}
NoErr       == [isError |-> FALSE, msg |-> ""]
Absent      == "absent"                 \* an undefined session field
NoTime      == -1                       \* lastAuthAt undefined

NoToken  == "none"
NoFetch  == 0                        \* fetchPromise = null
NoCached == [accessToken |-> NoToken, expiresAt |-> -1]   \* cachedToken = null

VARIABLES
  now,          \* Date.now()
  cachedToken,  \* module variable cachedToken (NoCached when null)
  fetchPromise, \* module variable fetchPromise: id of the fetch it stands for
  fetches,      \* token requests: "none", "pending", "ok" or "failed"
  nFetch,       \* number of network fetches issued so far
  calls,        \* getAccessToken calls of each caller
  sinceClear,   \* clearTokenCache has returned and no getAccessToken since
  sinceFail,    \* a fetch failed with a non-OK status, no getAccessToken since
  sess,         \* req.session of the callback request
  store,        \* the session store: what is persisted under each id
  pc,           \* position of saveUserToSession
  csrfKept,     \* its local `csrfSecret`
  userArg,      \* its argument `user`
  reported,     \* error reported by the regenerate / save callback
  rejection,    \* value the returned promise rejected with
  saveCalls,    \* number of times req.session.save was invoked
  pre,          \* session and store as they were when the call started
  startAt,      \* Date.now() when the call started
  endAt,        \* Date.now() when the call resolved
  codecPc,      \* which codec operation was last applied
  decodeArg,    \* raw session value handed to getUser
  decodeRes,    \* what getUser returned
  roleArg,      \* `role` argument of hasRole
  roleRes,      \* what hasRole returned
  mwStage,      \* "idle", "open" (the chain may go on) or "closed" (responded)
  mwReq,        \* the request: session user, lastAuthAt, destroyed, req.user
  mwRes,        \* the response sent, if any
  mwOut,        \* what the last middleware did, in order
  mwLast,       \* the last middleware run, with its arguments
  mwRan,        \* the middleware that have run on this request
  csrfSecret,   \* session.csrfSecret of the browser's session
  csrfIssued,   \* tokens issued to this session so far
  csrfLast,     \* the last request the CSRF guard handled, and its outcome
  gw,           \* the gateway request being proxied, and what it has done
  svc,          \* the AuthService singleton: environment, driver, calls delegated
  gwCfg,        \* the gateway router's module-level oauthConfig and privateApiBaseUrl
  client,       \* the web client's auth store: user, loading, error, fetchPromise
  cfgOf         \* the client configuration of each getAccessToken call, token
                \* request and cached token

tokenVars == <<cachedToken, fetchPromise, fetches, nFetch, calls,
               sinceClear, sinceFail>>
sessionVars == <<sess, store, pc, csrfKept, userArg, reported, rejection,
                 saveCalls, pre, startAt, endAt>>
codecVars == <<codecPc, decodeArg, decodeRes, roleArg, roleRes>>
\* what the actions of one component leave alone
authzVars == <<mwStage, mwReq, mwRes, mwOut, mwLast, mwRan>>
csrfVars == <<csrfSecret, csrfIssued, csrfLast>>
otherThanToken   == <<gwCfg, client, svc, csrfVars, sessionVars, codecVars, authzVars>>
otherThanSession == <<gwCfg, client, cfgOf, gw, csrfVars, tokenVars, codecVars, authzVars>>
otherThanCodec   == <<gwCfg, client, cfgOf, svc, gw, csrfVars, tokenVars, sessionVars, authzVars>>
otherThanAuthz   == <<gwCfg, client, cfgOf, svc, gw, csrfVars, tokenVars, sessionVars, codecVars>>
otherThanCsrf    == <<gwCfg, client, cfgOf, svc, gw, tokenVars, sessionVars, codecVars, authzVars>>
otherThanClient  == <<gwCfg, cfgOf, svc, gw, csrfVars, tokenVars, sessionVars,
                      codecVars, authzVars>>
\* the gateway's proxyRequest calls into the token cache: its steps change gw
\* together with the token variables
otherThanGateway == <<gwCfg, client, cfgOf, svc, csrfVars, sessionVars, codecVars, authzVars>>

IdleCall  == [state |-> "idle", awaits |-> NoFetch, value |-> NoToken,
              error |-> 0, source |-> "none"]

\* Variants of the validity test used to show that the checked properties
\* depend on it: one that never trusts the cache, one that forgets the buffer.
CacheValidNever(ct, t) == FALSE
CacheValidNoBuffer(ct, t) == ct # NoCached /\ ct.expiresAt > t

\* `cachedToken && cachedToken.expiresAt - EXPIRY_BUFFER_MS > Date.now()`
CacheValid(ct, t) == ct # NoCached /\ ct.expiresAt - EXPIRY_BUFFER_MS > t

\* `expiresAt: Date.now() + data.expires_in * 1000`
ExpiresAt(t, expiresIn) == t + expiresIn * 1000

Pending == {f \in FetchIds : fetches[f] = "pending"}

InitToken ==
  /\ cachedToken = NoCached
  /\ fetchPromise = NoFetch
  /\ fetches = [f \in FetchIds |-> "none"]
  /\ nFetch = 0
  /\ calls = [c \in Callers |-> IdleCall]
  /\ sinceClear = FALSE
  /\ sinceFail = FALSE

\* getAccessToken, first branch: the cached token is still valid
GetCached(c) ==
  /\ calls[c].state = "idle"
  /\ CacheValid(cachedToken, now)
  /\ calls' = [calls EXCEPT ![c] = [state |-> "resolved", awaits |-> NoFetch,
                                    value |-> cachedToken.accessToken,
                                    error |-> 0, source |-> "cache"]]
  /\ sinceClear' = FALSE
  /\ sinceFail' = FALSE
  /\ UNCHANGED <<now, cachedToken, fetchPromise, fetches, nFetch>>
  /\ UNCHANGED otherThanToken

\* getAccessToken, second branch: share the fetch that is in flight
GetShared(c) ==
  /\ calls[c].state = "idle"
  /\ ~CacheValid(cachedToken, now)
  /\ fetchPromise # NoFetch
  /\ calls' = [calls EXCEPT ![c] = [state |-> "waiting", awaits |-> fetchPromise,
                                    value |-> NoToken, error |-> 0,
                                    source |-> "shared"]]
  /\ sinceClear' = FALSE
  /\ sinceFail' = FALSE
  /\ UNCHANGED <<now, cachedToken, fetchPromise, fetches, nFetch>>
  /\ UNCHANGED otherThanToken

\* getAccessToken, third branch: fetchPromise = fetchToken(config).finally(..)
GetFetch(c) ==
  /\ calls[c].state = "idle"
  /\ ~CacheValid(cachedToken, now)
  /\ fetchPromise = NoFetch
  /\ nFetch < MaxFetches
  /\ nFetch' = nFetch + 1
  /\ fetches' = [fetches EXCEPT ![nFetch + 1] = "pending"]
  /\ fetchPromise' = nFetch + 1
  /\ calls' = [calls EXCEPT ![c] = [state |-> "waiting", awaits |-> nFetch + 1,
                                    value |-> NoToken, error |-> 0,
                                    source |-> "fetch"]]
  /\ sinceClear' = FALSE
  /\ sinceFail' = FALSE
  /\ UNCHANGED <<now, cachedToken>>
  /\ UNCHANGED otherThanToken

getAccessToken(c) == GetCached(c) \/ GetShared(c) \/ GetFetch(c)

\* The promise of fetch f settles: every call that was handed it settles too.
Settle(f, ok, tok, status) ==
  [c \in Callers |->
     IF calls[c].state = "waiting" /\ calls[c].awaits = f
     THEN [calls[c] EXCEPT !.state = IF ok THEN "resolved" ELSE "rejected",
                           !.value = tok, !.error = status]
     ELSE calls[c]]

\* a promise without the .finally() callback: the marker stays as it is
FinallyMarkerKept(f, marker) == marker
\* What the .finally() callback of the promise of fetch f leaves in fetchPromise
FinallyMarker(f, marker) == NoFetch

\* fetchToken: the endpoint answers 200 with {access_token, expires_in}
FetchOk(f, tok, expiresIn) ==
  /\ fetches[f] = "pending"
  /\ fetches' = [fetches EXCEPT ![f] = "ok"]
  /\ cachedToken' = [accessToken |-> tok, expiresAt |-> ExpiresAt(now, expiresIn)]
  /\ fetchPromise' = FinallyMarker(f, fetchPromise)
  /\ calls' = Settle(f, TRUE, tok, 0)
  /\ UNCHANGED <<now, nFetch, sinceClear, sinceFail>>
  /\ UNCHANGED otherThanToken

\* fetchToken: the endpoint answers with a non-OK status
FetchFail(f, status) ==
  /\ fetches[f] = "pending"
  /\ fetches' = [fetches EXCEPT ![f] = "failed"]
  /\ fetchPromise' = FinallyMarker(f, fetchPromise)
  /\ calls' = Settle(f, FALSE, NoToken, status)
  /\ sinceFail' = TRUE
  /\ UNCHANGED <<now, cachedToken, nFetch, sinceClear>>
  /\ UNCHANGED otherThanToken

\* clearTokenCache
clearTokenCache ==
  /\ cachedToken' = NoCached
  /\ fetchPromise' = NoFetch
  /\ sinceClear' = TRUE
  /\ UNCHANGED <<now, fetches, nFetch, calls, sinceFail>>
  /\ UNCHANGED otherThanToken

\* The caller consumes the outcome of its call; it may call again later.
Return(c) ==
  /\ calls[c].state \in {"resolved", "rejected"}
  /\ calls' = [calls EXCEPT ![c] = IdleCall]
  /\ UNCHANGED <<now, cachedToken, fetchPromise, fetches, nFetch,
                 sinceClear, sinceFail>>
  /\ UNCHANGED otherThanToken

\* Time passes
Tick ==
  /\ now < StartMs + MaxNow * TickMs
  /\ now' = now + TickMs
  /\ UNCHANGED <<tokenVars, sessionVars, codecVars, authzVars, csrfVars, gw, svc, gwCfg, client, cfgOf>>

vars == <<now, tokenVars, sessionVars, codecVars, authzVars, csrfVars, gw, svc, gwCfg, client, cfgOf>>

\* ------------------------------------------------------------------------
\* Shared session-save protocol (BaseAuthDriver.saveUserToSession)
\* ------------------------------------------------------------------------
EmptyFields == [csrfSecret |-> Absent, user |-> Absent, lastAuthAt |-> NoTime]
NoStored    == [exists |-> FALSE, csrfSecret |-> Absent, user |-> Absent,
                lastAuthAt |-> NoTime]
NoSess      == [id |-> 0, csrfSecret |-> Absent, user |-> Absent,
                lastAuthAt |-> NoTime]

\* what the store keeps for the session object s
Stored(s) == [exists |-> TRUE, csrfSecret |-> s.csrfSecret, user |-> s.user,
              lastAuthAt |-> s.lastAuthAt]

\* identifiers in use: those persisted in st and that of the session s
IdsOf(s, st) == {i \in SessionIds : st[i].exists} \cup {s.id}

\* JavaScript truthiness of a session field holding a string or undefined
Truthy(v) == v # Absent /\ v # ""

\* `err instanceof Error ? err : new Error(String(err))`
ToErrorGeneric(e) == [isError |-> TRUE, msg |-> "session error"]
ToError(e) == IF e.isError THEN e ELSE [isError |-> TRUE, msg |-> e.msg]

\* req.session.regenerate: the session object the store hands back on success
NotRegenerated(s, newId) == s
Regenerated(s, newId) == [id |-> newId, csrfSecret |-> Absent, user |-> Absent,
                          lastAuthAt |-> NoTime]

\* body of the regenerate callback after the error check: restore the
\* preserved secret, set user and lastAuthAt
RestoreDropsSecret(s, kept, u, t) == [s EXCEPT !.user = u, !.lastAuthAt = t]
RestoreAndSetUser(s, kept, u, t) ==
  [s EXCEPT !.csrfSecret = IF Truthy(kept) THEN kept ELSE s.csrfSecret,
            !.user = u,
            !.lastAuthAt = t]

InitSession ==
  /\ sess = NoSess
  /\ store = [i \in SessionIds |-> NoStored]
  /\ pc = "none"
  /\ csrfKept = Absent
  /\ userArg = Absent
  /\ reported = NoErr
  /\ rejection = NoErr
  /\ saveCalls = 0
  /\ pre = [sess |-> NoSess, store |-> [i \in SessionIds |-> NoStored]]
  /\ startAt = NoTime
  /\ endAt = NoTime

\* A callback request arrives; the session middleware has loaded (or created)
\* its session.  A session with content was persisted by an earlier request;
\* another user's session may live in the store as well.
Request(csrf, prior, other) ==
  /\ pc = "none"
  /\ LET s == [id |-> 1, csrfSecret |-> csrf, user |-> prior,
               lastAuthAt |-> IF prior = Absent THEN NoTime ELSE StartMs]
     IN /\ sess' = s
        /\ store' = [i \in SessionIds |->
                       IF i = 1 /\ (csrf # Absent \/ prior # Absent) THEN Stored(s)
                       ELSE IF i = 2 /\ other # Absent
                            THEN [exists |-> TRUE, csrfSecret |-> Absent,
                                  user |-> other, lastAuthAt |-> StartMs]
                            ELSE NoStored]
  /\ pc' = "idle"
  /\ UNCHANGED <<now, csrfKept, userArg, reported, rejection, saveCalls, pre,
                 startAt, endAt>>
  /\ UNCHANGED otherThanSession

\* saveUserToSession up to the call of req.session.regenerate
saveUserToSession(u) ==
  /\ pc = "idle"
  /\ csrfKept' = sess.csrfSecret
  /\ userArg' = u
  /\ pre' = [sess |-> sess, store |-> store]
  /\ startAt' = now
  /\ pc' = "regenerating"
  /\ UNCHANGED <<now, sess, store, reported, rejection, saveCalls, endAt>>
  /\ UNCHANGED otherThanSession

\* regenerate succeeded: the old session is destroyed, the callback restores
\* the secret, writes user and lastAuthAt and calls req.session.save
RegenerateOk(newId) ==
  /\ pc = "regenerating"
  /\ newId \in SessionIds \ IdsOf(pre.sess, pre.store)
  /\ store' = [store EXCEPT ![sess.id] = NoStored]
  /\ sess' = RestoreAndSetUser(Regenerated(sess, newId), csrfKept, userArg, now)
  /\ saveCalls' = saveCalls + 1
  /\ pc' = "saving"
  /\ UNCHANGED <<now, csrfKept, userArg, reported, rejection, pre, startAt, endAt>>
  /\ UNCHANGED otherThanSession

\* regenerate reported err: reject and return.  The store may or may not have
\* destroyed the old session and replaced the session object before failing.
RegenerateFail(err, newId, destroyed, replaced) ==
  /\ pc = "regenerating"
  /\ newId \in SessionIds \ IdsOf(pre.sess, pre.store)
  /\ store' = IF destroyed THEN [store EXCEPT ![sess.id] = NoStored] ELSE store
  /\ sess' = IF replaced THEN Regenerated(sess, newId) ELSE sess
  /\ reported' = err
  /\ rejection' = ToError(err)
  /\ pc' = "rejectedRegen"
  /\ UNCHANGED <<now, csrfKept, userArg, saveCalls, pre, startAt, endAt>>
  /\ UNCHANGED otherThanSession

\* req.session.save succeeded: resolve()
SaveOk ==
  /\ pc = "saving"
  /\ store' = [store EXCEPT ![sess.id] = Stored(sess)]
  /\ endAt' = now
  /\ pc' = "resolved"
  /\ UNCHANGED <<now, sess, csrfKept, userArg, reported, rejection, saveCalls,
                 pre, startAt>>
  /\ UNCHANGED otherThanSession

\* req.session.save reported saveErr: reject.  The write may or may not have
\* reached the store.
SaveFail(err, written) ==
  /\ pc = "saving"
  /\ store' = IF written THEN [store EXCEPT ![sess.id] = Stored(sess)] ELSE store
  /\ reported' = err
  /\ rejection' = ToError(err)
  /\ pc' = "rejectedSave"
  /\ UNCHANGED <<now, sess, csrfKept, userArg, saveCalls, pre, startAt, endAt>>
  /\ UNCHANGED otherThanSession

\* ------------------------------------------------------------------------
\* Session principal codec (AuthUserSchema, getUser) and hasRole
\* ------------------------------------------------------------------------
\* JavaScript values as they come out of the session store: a type tag, the
\* text of a primitive, the elements of an array / the values of an object.
JsVal(t, v) == [t |-> t, v |-> v, items |-> <<>>]
Undef  == JsVal("undefined", "")
Null   == JsVal("null", "")
Str(x) == JsVal("string", x)
Num(x) == JsVal("number", x)
Arr(xs) == [t |-> "array", v |-> "", items |-> xs]
Obj(xs) == [t |-> "object", v |-> "", items |-> xs]

\* session.user holding an object with these properties (extra: it carries a
\* property the schema does not know), or holding a non-object value
RawObj(id, email, name, roles, attributes, extra) ==
  [t |-> "object", v |-> "", id |-> id, email |-> email, name |-> name,
   roles |-> roles, attributes |-> attributes, extra |-> extra]
RawPrim(x) ==
  [t |-> x.t, v |-> x.v, id |-> Undef, email |-> Undef, name |-> Undef,
   roles |-> Undef, attributes |-> Undef, extra |-> FALSE]

\* `!x`
Falsy(x) ==
  \/ x.t \in {"undefined", "null"}
  \/ x.t = "string" /\ x.v = ""
  \/ x.t = "number" /\ x.v = "0"
  \/ x.t = "boolean" /\ x.v = "false"

FieldVals == {Undef, Null, Str(""), Str("u1"), Num("42")}
NameVals  == {Undef, Str(""), Str("Test User")}
RoleVals  == {Undef, Null, Str("admin"), Arr(<<>>), Arr(<<Str("admin")>>),
              Arr(<<Str("user")>>), Arr(<<Str("admin"), Str("user")>>),
              Arr(<<Num("123")>>), Arr(<<Str("user"), Num("123")>>)}
AttrVals  == {Undef, Obj(<<Str("IT"), Null>>), Obj(<<Obj(<<>>)>>), Arr(<<>>)}
RawUsers  ==
  {RawPrim(x) : x \in {Undef, Null, Str(""), Str("garbage"), Num("0"), Arr(<<>>)}}
    \cup {RawObj(i, e, n, r, a, x) :
            i \in FieldVals, e \in NameVals, n \in NameVals,
            r \in RoleVals, a \in AttrVals, x \in BOOLEAN}
\* `role: string | string[]` arguments of hasRole
RoleArgs  == {Str("admin"), Str("Admin"), Str("manager"), Arr(<<>>),
              Arr(<<Str("super-admin"), Str("user")>>),
              Arr(<<Str("super-admin"), Str("manager")>>)}

\* z.string()
IsZString(x) == x.t = "string"
\* z.array(z.string()).optional()
IsZRoles(x) ==
  \/ x.t = "undefined"
  \/ x.t = "array" /\ \A k \in DOMAIN x.items : IsZString(x.items[k])
\* z.record(z.string(), z.union([string, number, boolean, null])).optional()
IsZAttributes(x) ==
  \/ x.t = "undefined"
  \/ x.t = "object" /\ \A k \in DOMAIN x.items :
                          x.items[k].t \in {"string", "number", "boolean", "null"}

\* a schema that does not look inside roles
SafeParseSuccessAnyRoles(raw) ==
  /\ raw.t = "object"
  /\ IsZString(raw.id)
  /\ IsZString(raw.email)
  /\ IsZString(raw.name)
  /\ IsZAttributes(raw.attributes)

\* AuthUserSchema.safeParse(raw).success
SafeParseSuccess(raw) ==
  /\ raw.t = "object"
  /\ IsZString(raw.id)
  /\ IsZString(raw.email)
  /\ IsZString(raw.name)
  /\ IsZRoles(raw.roles)
  /\ IsZAttributes(raw.attributes)

\* AuthUserSchema.safeParse(raw).data: unknown properties are stripped
SafeParseData(raw) == [raw EXCEPT !.extra = FALSE]

NoPrincipal == RawPrim(Null)

\* BaseAuthDriver.getUser
getUser(raw) ==
  IF Falsy(raw) THEN NoPrincipal
  ELSE IF SafeParseSuccess(raw) THEN SafeParseData(raw) ELSE NoPrincipal

\* `Array.isArray(role) ? role : [role]`
RequiredRoles(role) == IF role.t = "array" THEN role.items ELSE <<role>>

\* `userRoles.includes(role)`
Includes(xs, x) == \E k \in DOMAIN xs : xs[k] = x

\* hasRole with AND semantics: every requested role must be held
hasRoleEvery(user, role) ==
  IF Falsy(user) \/ Falsy(user.roles) THEN FALSE
  ELSE \A k \in DOMAIN RequiredRoles(role) :
          Includes(user.roles.items, RequiredRoles(role)[k])

\* BaseAuthDriver.hasRole
hasRole(user, role) ==
  IF Falsy(user) \/ Falsy(user.roles) THEN FALSE
  ELSE \E k \in DOMAIN RequiredRoles(role) :
          Includes(user.roles.items, RequiredRoles(role)[k])

InitCodec ==
  /\ codecPc = "idle"
  /\ decodeArg = RawPrim(Undef)
  /\ decodeRes = NoPrincipal
  /\ roleArg = Undef
  /\ roleRes = FALSE

\* driver.getUser(req) with req.session.user = raw
CallGetUser(raw) ==
  /\ codecPc = "idle"
  /\ decodeArg' = raw
  /\ decodeRes' = getUser(raw)
  /\ codecPc' = "getUser"
  /\ UNCHANGED <<now, roleArg, roleRes>>
  /\ UNCHANGED otherThanCodec

\* driver.hasRole(user, role) with the user getUser returned
CallHasRole(role) ==
  /\ codecPc = "getUser"
  /\ roleArg' = role
  /\ roleRes' = hasRole(decodeRes, role)
  /\ codecPc' = "hasRole"
  /\ UNCHANGED <<now, decodeArg, decodeRes>>
  /\ UNCHANGED otherThanCodec

NextCodec ==
  \/ \E raw \in RawUsers : CallGetUser(raw)
  \/ \E role \in RoleArgs : CallHasRole(role)

\* ------------------------------------------------------------------------
\* Security audit log (logSecurityEvent, sanitizeObject)
\* ------------------------------------------------------------------------
SENSITIVE_FIELDS ==
  { <<"p","a","s","s","w","o","r","d">>, <<"t","o","k","e","n">>,
    <<"s","e","c","r","e","t">>, <<"a","p","i","_","k","e","y">>,
    <<"a","p","i","k","e","y">>,
    <<"a","u","t","h","o","r","i","z","a","t","i","o","n">>,
    <<"c","o","o","k","i","e">>, <<"c","s","r","f">>,
    <<"e","m","a","i","l">>, <<"p","h","o","n","e">>, <<"s","s","n">>,
    <<"s","i","n">>, <<"c","r","e","d","i","t","_","c","a","r","d">>,
    <<"c","a","r","d","_","n","u","m","b","e","r">>, <<"c","v","v">>,
    <<"a","d","d","r","e","s","s">>,
    <<"p","o","s","t","a","l","_","c","o","d","e">>,
    <<"z","i","p","_","c","o","d","e">>,
    <<"b","u","s","i","n","e","s","s","_","n","u","m","b","e","r">>,
    <<"t","a","x","_","i","d">> }

\* the characters of the detail keys the middleware log
Spelling(key) ==
  CASE key = "ip"            -> <<"i","p">>
    [] key = "path"          -> <<"p","a","t","h">>
    [] key = "method"        -> <<"m","e","t","h","o","d">>
    [] key = "reason"        -> <<"r","e","a","s","o","n">>
    [] key = "requiredRoles" -> <<"r","e","q","u","i","r","e","d","R","o","l","e","s">>
    [] key = "userRoles"     -> <<"u","s","e","r","R","o","l","e","s">>
    [] key = "lastAuthAt"    -> <<"l","a","s","t","A","u","t","h","A","t">>
    [] key = "maxAgeMinutes" -> <<"m","a","x","A","g","e","M","i","n","u","t","e","s">>

\* key.toLowerCase()
ToLowerCase(cs) ==
  [k \in DOMAIN cs |->
     CASE cs[k] = "A" -> "a" [] cs[k] = "M" -> "m" [] cs[k] = "R" -> "r"
       [] OTHER -> cs[k]]

\* lowerKey.includes(field)
StringIncludes(cs, field) ==
  \E k \in 0..(Len(cs) - Len(field)) : SubSeq(cs, k + 1, k + Len(field)) = field

IsSensitive(key) ==
  \E field \in SENSITIVE_FIELDS : StringIncludes(ToLowerCase(Spelling(key)), field)

\* sanitizeObject(details): the keys are kept, sensitive values are redacted
sanitizeObject(keys) ==
  [key \in keys |-> IF IsSensitive(key) THEN "[REDACTED]" ELSE "value"]

NoDetails == [key \in {} |-> "value"]

\* logSecurityEvent(event, userId, details): the entry written to the log
logSecurityEvent(event, userId, keys) ==
  [kind |-> "audit", event |-> event,
   userId |-> IF Falsy(userId) THEN "anonymous" ELSE userId.v,
   details |-> sanitizeObject(keys)]

\* res.status(..).json(..) and next() as entries of the same trace
ResponseSent == [kind |-> "response", event |-> "", userId |-> "", details |-> NoDetails]
NextCalled   == [kind |-> "next", event |-> "", userId |-> "", details |-> NoDetails]

\* ------------------------------------------------------------------------
\* Auth middleware (requireAuth, requireRole, requireRecentAuth, optionalAuth)
\* and the gateway's GET route
\* ------------------------------------------------------------------------
Unattached == RawPrim(Undef)
NoResponse == [sent |-> FALSE, status |-> 0, code |-> ""]
NoSplat    == [t |-> "undefined", s |-> <<>>, segs |-> <<>>]
NoRun      == [name |-> "none", roles |-> <<>>, maxAgeMinutes |-> 0,
               at |-> 0, splat |-> NoSplat]

\* session.user values a request can arrive with
SessionUsers ==
  { RawPrim(Undef), RawPrim(Str("")), RawPrim(Str("garbage")),
    RawObj(Str("u1"), Str("Test User"), Str("Test User"), Undef, Undef, FALSE),
    RawObj(Str("u1"), Str("Test User"), Str("Test User"), Arr(<<Str("user")>>), Undef, TRUE),
    RawObj(Str("u1"), Str("Test User"), Str("Test User"),
           Arr(<<Str("admin"), Str("user")>>), Undef, FALSE),
    RawObj(Str("u1"), Str("Test User"), Undef, Undef, Undef, FALSE),
    RawObj(Str("u1"), Str("Test User"), Str("Test User"), Arr(<<Num("123")>>), Undef, FALSE),
    RawObj(Num("42"), Str("Test User"), Str("Test User"), Str("admin"), Undef, FALSE) }

\* session.lastAuthAt values: missing, or a Date.now() of the past
LastAuthTimes == {NoTime} \cup {StartMs + k * TickMs : k \in 0..MaxNow}

\* requireRole(...roles) argument lists
RoleLists == { <<>>, <<Str("admin")>>, <<Str("Admin")>>,
               <<Str("admin"), Str("user")>>, <<Str("manager"), Str("super-admin")>> }

\* requireRecentAuth(maxAgeMinutes) arguments; 15 is the default
MaxAgeValues == {1, 15}

\* req.params.splat values: undefined, a string, or the matched segments
StringSplat(cs) == [t |-> "string", s |-> cs, segs |-> <<>>]
ArraySplat(ss)  == [t |-> "array", s |-> <<>>, segs |-> ss]
Splats ==
  { NoSplat, StringSplat(<<"a", ".", ".">>), ArraySplat(<<>>),
    ArraySplat(<< <<"a">> >>), ArraySplat(<< <<".", ".">>, <<"a">> >>),
    ArraySplat(<< <<".">>, <<".">> >>), ArraySplat(<< <<>>, <<"a">> >>),
    ArraySplat(<< <<"a", ".">>, <<".", "a">> >>), ArraySplat(<< <<"a", ".", ".", "a">> >>) }

\* outcome of proxyRequest: the backend's status, or a thrown error
ProxyOutcomes == { [threw |-> FALSE, status |-> 200], [threw |-> FALSE, status |-> 404],
                   [threw |-> TRUE, status |-> 0] }

RECURSIVE Join(_)
\* splat.join('/')
Join(ss) ==
  IF ss = <<>> THEN <<>>
  ELSE IF Len(ss) = 1 THEN ss[1]
  ELSE ss[1] \o <<"/">> \o Join(Tail(ss))

RECURSIVE StripLeadingSlashes(_)
\* raw.replace(/^\/+/, '')
StripLeadingSlashes(cs) ==
  IF cs # <<>> /\ Head(cs) = "/" THEN StripLeadingSlashes(Tail(cs)) ELSE cs

\* a sanitizer that rejects only whole '..' segments
sanitizePathSegments(splat) ==
  LET raw == IF splat.t = "array" THEN Join(splat.segs) ELSE splat.s
  IN  IF splat.t = "array" /\ \E k \in DOMAIN splat.segs : splat.segs[k] = <<".", ".">>
      THEN [isNull |-> TRUE, path |-> <<>>]
      ELSE [isNull |-> FALSE, path |-> <<"/">> \o StripLeadingSlashes(raw)]

\* sanitizePath: null for a path containing '..', else the path with one
\* leading slash
sanitizePath(splat) ==
  LET raw == IF splat.t = "array" THEN Join(splat.segs) ELSE splat.s
  IN  IF StringIncludes(raw, <<".", ".">>)
      THEN [isNull |-> TRUE, path |-> <<>>]
      ELSE [isNull |-> FALSE, path |-> <<"/">> \o StripLeadingSlashes(raw)]

InitAuthz ==
  /\ mwStage = "idle"
  /\ mwReq = [sessUser |-> RawPrim(Undef), lastAuthAt |-> NoTime,
              destroyed |-> FALSE, user |-> Unattached]
  /\ mwRes = NoResponse
  /\ mwOut = <<>>
  /\ mwLast = NoRun
  /\ mwRan = {}

\* A request arrives with the session the store holds for its cookie.
Arrive(raw, lastAuthAt) ==
  /\ mwStage = "idle"
  /\ lastAuthAt <= now
  /\ mwStage' = "open"
  /\ mwReq' = [sessUser |-> raw, lastAuthAt |-> lastAuthAt,
               destroyed |-> FALSE, user |-> Unattached]
  /\ UNCHANGED <<now, mwRes, mwOut, mwLast, mwRan>>
  /\ UNCHANGED otherThanAuthz

\* `logSecurityEvent(..)` (if any), then `return res.status(status).json(..)`
Respond(run, audits, status, code, req) ==
  /\ mwOut' = audits \o <<ResponseSent>>
  /\ mwRes' = [sent |-> TRUE, status |-> status, code |-> code]
  /\ mwStage' = "closed"
  /\ mwReq' = req
  /\ mwLast' = run
  /\ mwRan' = mwRan \cup {run.name}
  /\ UNCHANGED now
  /\ UNCHANGED otherThanAuthz

\* `next()`
CallNext(run, req) ==
  /\ mwOut' = <<NextCalled>>
  /\ mwReq' = req
  /\ mwLast' = run
  /\ mwRan' = mwRan \cup {run.name}
  /\ UNCHANGED <<now, mwRes, mwStage>>
  /\ UNCHANGED otherThanAuthz

Run(name) == [NoRun EXCEPT !.name = name, !.at = now]

\* requireAuth without the session destroy on a schema failure
requireAuthKeepsSession ==
  /\ mwStage = "open"
  /\ mwRan = {}
  /\ LET raw == mwReq.sessUser IN
     IF Falsy(raw)
     THEN Respond(Run("requireAuth"),
                  <<logSecurityEvent("authz.denied.unauthenticated", Undef,
                                     {"ip", "path", "method"})>>,
                  401, "UNAUTHORIZED", mwReq)
     ELSE IF ~SafeParseSuccess(raw)
     THEN Respond(Run("requireAuth"),
                  <<logSecurityEvent("authz.denied.invalid_session", Undef,
                                     {"ip", "path", "reason"})>>,
                  401, "UNAUTHORIZED", mwReq)
     ELSE CallNext(Run("requireAuth"), [mwReq EXCEPT !.user = SafeParseData(raw)])

requireAuth ==
  /\ mwStage = "open"
  /\ mwRan = {}
  /\ LET raw == mwReq.sessUser IN
     IF Falsy(raw)
     THEN Respond(Run("requireAuth"),
                  <<logSecurityEvent("authz.denied.unauthenticated", Undef,
                                     {"ip", "path", "method"})>>,
                  401, "UNAUTHORIZED", mwReq)
     ELSE IF ~SafeParseSuccess(raw)
     THEN Respond(Run("requireAuth"),
                  <<logSecurityEvent("authz.denied.invalid_session", Undef,
                                     {"ip", "path", "reason"})>>,
                  401, "UNAUTHORIZED", [mwReq EXCEPT !.destroyed = TRUE])
     ELSE CallNext(Run("requireAuth"), [mwReq EXCEPT !.user = SafeParseData(raw)])

\* `user.roles || []`
UserRoles(user) == IF Falsy(user.roles) THEN <<>> ELSE user.roles.items

\* every requested role must be held
HasRequiredRoleEvery(roles, userRoles) ==
  \A k \in DOMAIN roles : Includes(userRoles, roles[k])

\* `roles.some((role) => userRoles.includes(role))`
HasRequiredRole(roles, userRoles) ==
  \E k \in DOMAIN roles : Includes(userRoles, roles[k])

\* requireRole(...roles), chained after requireAuth or mounted without it
requireRole(roles) ==
  /\ mwStage = "open"
  /\ "requireRole" \notin mwRan
  /\ mwRan \subseteq {"requireAuth", "requireRecentAuth"}
  /\ LET user == mwReq.user
         run  == [Run("requireRole") EXCEPT !.roles = roles] IN
     IF Falsy(user)
     THEN Respond(run, <<>>, 401, "UNAUTHORIZED", mwReq)
     ELSE IF ~HasRequiredRole(roles, UserRoles(user))
     THEN Respond(run,
                  <<logSecurityEvent("authz.denied.insufficient_role", user.id,
                                     {"ip", "path", "method", "requiredRoles",
                                      "userRoles"})>>,
                  403, "FORBIDDEN", mwReq)
     ELSE CallNext(run, mwReq)

\* a staleness test that rejects at the threshold itself
IsStaleAtThreshold(lastAuthAt, maxAgeMinutes, t) ==
  \/ lastAuthAt = NoTime
  \/ lastAuthAt = 0
  \/ t - lastAuthAt >= maxAgeMinutes * 60 * 1000

\* `!lastAuthAt || Date.now() - lastAuthAt > maxAgeMinutes * 60 * 1000`
IsStale(lastAuthAt, maxAgeMinutes, t) ==
  \/ lastAuthAt = NoTime
  \/ lastAuthAt = 0
  \/ t - lastAuthAt > maxAgeMinutes * 60 * 1000

\* requireRecentAuth(maxAgeMinutes), chained after requireAuth or mounted
\* without it
requireRecentAuth(maxAgeMinutes) ==
  /\ mwStage = "open"
  /\ "requireRecentAuth" \notin mwRan
  /\ mwRan \subseteq {"requireAuth", "requireRole"}
  /\ LET user == mwReq.user
         run  == [Run("requireRecentAuth") EXCEPT !.maxAgeMinutes = maxAgeMinutes] IN
     IF Falsy(user)
     THEN Respond(run, <<>>, 401, "UNAUTHORIZED", mwReq)
     ELSE IF IsStale(mwReq.lastAuthAt, maxAgeMinutes, now)
     THEN Respond(run,
                  <<logSecurityEvent("authz.denied.stale_session", user.id,
                                     {"ip", "path", "lastAuthAt", "maxAgeMinutes"})>>,
                  401, "REAUTHENTICATION_REQUIRED", mwReq)
     ELSE CallNext(run, mwReq)

optionalAuth ==
  /\ mwStage = "open"
  /\ mwRan = {}
  /\ LET user == mwReq.sessUser IN
     IF ~Falsy(user)
     THEN CallNext(Run("optionalAuth"), [mwReq EXCEPT !.user = user])
     ELSE CallNext(Run("optionalAuth"), mwReq)

\* router.get('/{*splat}') of the gateway, behind router.use(requireAuth);
\* proxyRequest is the call to the private backend
gatewayGet(splat, outcome) ==
  /\ mwStage = "open"
  /\ mwRan = {"requireAuth"}
  /\ LET path == sanitizePath(splat)
         run  == [Run("gatewayGet") EXCEPT !.splat = splat] IN
     IF path.isNull
     THEN Respond(run,
                  <<logSecurityEvent("gateway.blocked.path_traversal", mwReq.user.id,
                                     {"ip", "path", "method"})>>,
                  400, "INVALID_PATH", mwReq)
     ELSE IF outcome.threw
     THEN Respond(run, <<>>, 502, "BAD_GATEWAY", mwReq)
     ELSE Respond(run, <<>>, outcome.status, "", mwReq)

NextAuthz ==
  \/ \E raw \in SessionUsers, t \in LastAuthTimes : Arrive(raw, t)
  \/ requireAuth
  \/ \E roles \in RoleLists : requireRole(roles)
  \/ \E m \in MaxAgeValues : requireRecentAuth(m)
  \/ optionalAuth
  \/ \E splat \in Splats, outcome \in ProxyOutcomes : gatewayGet(splat, outcome)
  \/ Tick

\* ------------------------------------------------------------------------
\* CSRF guard (csrfProtection, csrfTokenEndpoint)
\* ------------------------------------------------------------------------
SafeMethods   == {"GET", "HEAD", "OPTIONS"}
UnsafeMethods == {"POST", "PUT", "PATCH", "DELETE"}
\* an allow-list that forgets the IdP callback
SkipPathsNoCallback == {"/api/v1/health", "/api/v1/info"}
SkipPaths     == {"/api/v1/health", "/api/v1/info", "/api/v1/auth/callback"}
CsrfPaths     == {"/api/v1/health", "/api/v1/info", "/api/v1/auth/callback", "/test"}

\* a token: a one-way derivation of a secret with a per-token salt
DeriveToken(secret, salt) == [secret |-> secret, salt |-> salt]
NoCsrfToken == DeriveToken("none", 0)
\* what a request can present: a token derived from some secret, or junk
PresentedTokens ==
  {DeriveToken(x, n) : x \in CsrfSecrets, n \in 1..MaxSalts}
    \cup {DeriveToken("totally-invalid-token", 0)}

\* a check that accepts whatever is presented
VerifyAny(secret, token) == TRUE

\* the guard derives the expected value from the stored secret and compares
VerifyToken(secret, token) ==
  /\ secret # Absent
  /\ token.salt \in 1..MaxSalts
  /\ token.secret = secret

\* a guard that makes a new secret on every safe request
ProvisionAlways(current, fresh) == fresh

\* the secret is generated only when the session has none
ProvisionSecret(current, fresh) == IF current = Absent THEN fresh ELSE current

NoCsrfRequest ==
  [kind |-> "none", method |-> "", path |-> "", channel |-> "none",
   token |-> NoCsrfToken, secretBefore |-> Absent, status |-> 0, code |-> "",
   next |-> FALSE, header |-> NoCsrfToken]

InitCsrf ==
  /\ csrfSecret = Absent
  /\ csrfIssued = {}
  /\ csrfLast = NoCsrfRequest

\* csrfProtection(req, res, next): the request carries `token` in the
\* x-csrf-token header, in body._csrf, or carries none; `fresh` and `salt`
\* are the random values the guard draws; csrfLast keeps of the request what
\* the guard read
csrfProtection(method, path, channel, token, fresh, salt) ==
  /\ channel = "none" <=> token = NoCsrfToken
  /\ LET seen == [NoCsrfRequest EXCEPT !.method = method, !.path = path,
                    !.secretBefore = csrfSecret]
         req  == [seen EXCEPT !.channel = channel, !.token = token]
         secret == ProvisionSecret(csrfSecret, fresh)
     IN  IF path \in SkipPaths
         THEN /\ csrfLast' = [seen EXCEPT !.kind = "skip", !.next = TRUE,
                                !.channel = channel]
              /\ UNCHANGED <<csrfSecret, csrfIssued>>
         ELSE IF method \in SafeMethods
         THEN /\ csrfSecret' = secret
              /\ csrfIssued' = csrfIssued \cup {DeriveToken(secret, salt)}
              /\ csrfLast' = [seen EXCEPT !.kind = "safe", !.next = TRUE,
                                !.header = DeriveToken(secret, salt)]
         ELSE /\ UNCHANGED <<csrfSecret, csrfIssued>>
              /\ csrfLast' =
                   IF channel = "none"
                   THEN [req EXCEPT !.kind = "unsafe", !.status = 403,
                           !.code = "CSRF_MISSING"]
                   ELSE IF ~VerifyToken(csrfSecret, token)
                   THEN [req EXCEPT !.kind = "unsafe", !.status = 403,
                           !.code = "CSRF_INVALID"]
                   ELSE [req EXCEPT !.kind = "unsafe", !.next = TRUE]
  /\ UNCHANGED now
  /\ UNCHANGED otherThanCsrf

\* GET /api/v1/csrf-token: issues a token for the current session
csrfTokenEndpoint(fresh, salt) ==
  /\ LET secret == ProvisionSecret(csrfSecret, fresh) IN
     /\ csrfSecret' = secret
     /\ csrfIssued' = csrfIssued \cup {DeriveToken(secret, salt)}
     /\ csrfLast' = [NoCsrfRequest EXCEPT !.kind = "endpoint", !.method = "GET",
                       !.path = "/api/v1/csrf-token", !.secretBefore = csrfSecret,
                       !.status = 200, !.header = DeriveToken(secret, salt)]
  /\ UNCHANGED now
  /\ UNCHANGED otherThanCsrf

\* The session ends (logout, expiry); the browser starts a new one.
SessionEnds ==
  /\ csrfSecret # Absent
  /\ csrfSecret' = Absent
  /\ csrfIssued' = {}
  /\ csrfLast' = [NoCsrfRequest EXCEPT !.kind = "ended"]
  /\ UNCHANGED now
  /\ UNCHANGED otherThanCsrf

NextCsrf ==
  \/ \E method \in SafeMethods \cup UnsafeMethods, path \in CsrfPaths,
        channel \in {"none", "header", "body"},
        fresh \in CsrfSecrets, salt \in 1..MaxSalts :
        \E token \in (IF channel = "none" THEN {NoCsrfToken} ELSE PresentedTokens) :
           csrfProtection(method, path, channel, token, fresh, salt)
  \/ \E fresh \in CsrfSecrets, salt \in 1..MaxSalts : csrfTokenEndpoint(fresh, salt)
  \/ SessionEnds

\* ------------------------------------------------------------------------
\* API gateway: the data/* routes and proxyRequest
\* ------------------------------------------------------------------------
\* a process.env entry: undefined, or a string held as a sequence of pieces
Unset == [set |-> FALSE, s |-> <<>>]
EnvStr(s) == [set |-> TRUE, s |-> s]

\* truthiness of process.env.X: undefined and '' are both falsy
Configured(v) == v.set /\ v.s # <<>>

\* the environments the gateway module is loaded in: every combination of
\* the four OAuth variables and the base URL, and the token endpoint variants
GatewayEnvs ==
  LET four == [OAUTH_TENANT_ID : {Unset, EnvStr(<<"tenant-1">>)},
               OAUTH_CLIENT_ID : {Unset, EnvStr(<<"client-1">>)},
               OAUTH_CLIENT_SECRET : {Unset, EnvStr(<<"s3cret">>)},
               OAUTH_SCOPE : {Unset, EnvStr(<<>>), EnvStr(<<"api://private/.default">>)},
               OAUTH_TOKEN_ENDPOINT : {Unset},
               PRIVATE_API_BASE_URL : {Unset, EnvStr(<<"http://private:4000">>)}]
      endpoints == [OAUTH_TENANT_ID : {Unset, EnvStr(<<"tenant-1">>)},
                    OAUTH_CLIENT_ID : {EnvStr(<<"client-1">>)},
                    OAUTH_CLIENT_SECRET : {EnvStr(<<"s3cret">>)},
                    OAUTH_SCOPE : {EnvStr(<<"api://private/.default">>)},
                    OAUTH_TOKEN_ENDPOINT : {EnvStr(<<>>), EnvStr(<<"https://idp/token">>)},
                    PRIVATE_API_BASE_URL : {Unset}]
  IN four \cup endpoints

\* what parseOAuthClientConfig() does: null when none of the four is set, a
\* ZodError when the schema rejects the object, else the parsed config with
\* the token endpoint derived from the tenant when none is given
NoOAuthConfig == [kind |-> "null", tokenEndpoint |-> <<>>]
parseOAuthClientConfig(env) ==
  IF /\ ~Configured(env.OAUTH_TENANT_ID) /\ ~Configured(env.OAUTH_CLIENT_ID)
     /\ ~Configured(env.OAUTH_CLIENT_SECRET) /\ ~Configured(env.OAUTH_SCOPE)
  THEN NoOAuthConfig
  ELSE IF \/ ~Configured(env.OAUTH_TENANT_ID) \/ ~Configured(env.OAUTH_CLIENT_ID)
          \/ ~Configured(env.OAUTH_CLIENT_SECRET) \/ ~Configured(env.OAUTH_SCOPE)
          \/ (env.OAUTH_TOKEN_ENDPOINT.set /\ env.OAUTH_TOKEN_ENDPOINT.s = <<>>)
  THEN [kind |-> "threw", tokenEndpoint |-> <<>>]
  ELSE [kind |-> "config",
        tokenEndpoint |->
          IF Configured(env.OAUTH_TOKEN_ENDPOINT) THEN env.OAUTH_TOKEN_ENDPOINT.s
          ELSE <<"https://login.microsoftonline.com/">> \o env.OAUTH_TENANT_ID.s
                 \o <<"/oauth2/v2.0/token">>]

NoGatewayConfig == [stage |-> "unloaded", env |-> CHOOSE e \in GatewayEnvs :
                                             \A k \in DOMAIN e : e[k] = Unset,
                    oauthConfig |-> NoOAuthConfig, privateApiBaseUrl |-> Unset]

\* the module is loaded: `const oauthConfig = parseOAuthClientConfig()` and
\* `const privateApiBaseUrl = process.env.PRIVATE_API_BASE_URL`; when the
\* parse throws the module fails to load and the server never starts
loadGateway(env) ==
  /\ gwCfg.stage = "unloaded"
  /\ LET config == parseOAuthClientConfig(env)
     IN gwCfg' = [stage |-> IF config.kind = "threw" THEN "failed" ELSE "loaded",
                  env |-> env,
                  oauthConfig |-> config,
                  privateApiBaseUrl |-> env.PRIVATE_API_BASE_URL]
  /\ UNCHANGED <<now, gw, svc, client, cfgOf, tokenVars, sessionVars, codecVars, authzVars, csrfVars>>

GatewayDisabledNoBase(cfg) == cfg.oauthConfig.kind = "null"
\* `!oauthConfig || !privateApiBaseUrl`
GatewayDisabled(cfg) ==
  cfg.oauthConfig.kind = "null" \/ ~Configured(cfg.privateApiBaseUrl)

GwCaller == 1       \* the getAccessToken call slot the proxied request uses

HeaderValue(scheme, text) == [scheme |-> scheme, text |-> text]
NoHeaders == [name \in {} |-> HeaderValue("", "")]
\* options.headers values a caller of proxyRequest passes
HeaderOptions ==
  { NoHeaders,
    [name \in {"X-Request-Id"} |-> HeaderValue("", "abc-123")],
    [name \in {"Authorization"} |-> HeaderValue("Basic", "caller") ] }

\* upstream bodies: the text on the wire and, if it is JSON, its value
Body(text, isJson, value) == [text |-> text, isJson |-> isJson, value |-> value]
\* what fetch(url) settles with: a response, or a network error
NoUpstream == [net |-> FALSE, status |-> 0, body |-> Body("", FALSE, "")]
UpstreamResponses ==
  {[net |-> FALSE, status |-> st, body |-> b] :
      st \in {200, 404},
      b \in { Body("{\"id\":1}", TRUE, "id=1"), Body("{ \"id\": 1 }", TRUE, "id=1"),
              Body("<html>Bad Gateway</html>", FALSE, "") }}
    \cup {[net |-> TRUE, status |-> 0, body |-> Body("", FALSE, "")]}

NoResult == [threw |-> FALSE, status |-> 0, data |-> ""]
NoGw ==
  [stage |-> "idle", via |-> "none", method |-> "", forwarded |-> "",
   splat |-> NoSplat,
   path |-> <<>>, headers |-> NoHeaders, audit |-> <<>>,
   tokenCalls |-> 0, fetchesBefore |-> 0, tokenOutcome |-> "none",
   token |-> NoToken, outbound |-> 0, url |-> <<>>, sent |-> NoHeaders,
   upstream |-> NoUpstream, result |-> NoResult,
   responses |-> 0, status |-> 0, code |-> "", body |-> ""]

\* `{ Authorization, 'Content-Type', ...options.headers }`
FetchHeaders(token, headers) ==
  LET base == [name \in {"Authorization", "Content-Type"} |->
                 IF name = "Authorization" THEN HeaderValue("Bearer", token)
                 ELSE HeaderValue("", "application/json")]
  IN  [name \in DOMAIN base \cup DOMAIN headers |->
         IF name \in DOMAIN headers THEN headers[name] ELSE base[name]]

\* the catch block of a route that answers 401
OnProxyErrorUnauthorized(g) ==
  [g EXCEPT !.stage = "done", !.responses = @ + 1, !.status = 401,
            !.code = "UNAUTHORIZED"]

\* proxyRequest threw: the route's catch block answers 502; a direct caller
\* gets the rejection
OnProxyError(g) ==
  IF g.via = "route"
  THEN [g EXCEPT !.stage = "done", !.responses = @ + 1, !.status = 502,
                 !.code = "BAD_GATEWAY", !.result = [NoResult EXCEPT !.threw = TRUE]]
  ELSE [g EXCEPT !.stage = "done", !.result = [NoResult EXCEPT !.threw = TRUE]]

\* a route that always answers 200
OnProxyResultOk(g, status, data) ==
  [g EXCEPT !.stage = "done", !.responses = @ + 1, !.status = 200, !.body = data,
            !.result = [threw |-> FALSE, status |-> status, data |-> data]]

\* proxyRequest returned { status, data }: the route answers
\* res.status(result.status).json(result.data)
OnProxyResult(g, status, data) ==
  IF g.via = "route"
  THEN [g EXCEPT !.stage = "done", !.responses = @ + 1, !.status = status,
                 !.body = data,
                 !.result = [threw |-> FALSE, status |-> status, data |-> data]]
  ELSE [g EXCEPT !.stage = "done",
                 !.result = [threw |-> FALSE, status |-> status, data |-> data]]

\* proxyRequest up to `await getAccessToken(oauthConfig)`
proxyRequest(via, method, splat, path, headers) ==
  /\ gw' = [NoGw EXCEPT !.stage = "token", !.via = via, !.splat = splat, !.path = path, !.headers = headers,
              !.method = IF via = "route" THEN method ELSE "",
              !.forwarded = method,
              !.tokenCalls = 1, !.fetchesBefore = nFetch]
  /\ getAccessToken(GwCaller)
  /\ UNCHANGED cfgOf

\* a gate that lets every open request through
GatewayGateOpen == mwStage = "open" /\ mwRan \subseteq {"requireAuth"}

\* router.use(requireAuth): the routes run only after requireAuth called next()
GatewayGate == mwStage = "open" /\ mwRan = {"requireAuth"}

\* router.use: the configured check, first middleware of the router
gatewayConfigured ==
  /\ gwCfg.stage = "loaded"
  /\ mwStage = "open"
  /\ mwRan = {}
  /\ gw.stage = "idle"
  /\ IF GatewayDisabled(gwCfg)
     THEN Respond(Run("gatewayConfigured"), <<>>, 503, "GATEWAY_NOT_CONFIGURED",
                  mwReq)
     ELSE /\ gw' = [gw EXCEPT !.stage = "checked"]
          /\ UNCHANGED <<now, tokenVars>>
          /\ UNCHANGED otherThanGateway

\* the methods of the requests that reach the router
RequestMethods == {"GET", "POST", "PUT", "PATCH", "DELETE"}

\* the methods the router registers a route for
RoutedMethods == {"GET", "POST", "PUT", "DELETE"}

\* a request of another method matches no route of the router and falls
\* through to the application's 404 handler
notFound(method, splat) ==
  /\ GatewayGate
  /\ gw.stage = "checked"
  /\ method \notin RoutedMethods
  /\ gw' = [NoGw EXCEPT !.stage = "done", !.via = "unrouted", !.method = method,
                        !.fetchesBefore = nFetch, !.splat = splat,
                        !.responses = 1, !.status = 404, !.code = "NOT_FOUND"]
  /\ UNCHANGED <<now, tokenVars>>
  /\ UNCHANGED otherThanGateway

\* router.get / post / put / delete('/{*splat}')
gatewayRoute(method, splat) ==
  /\ GatewayGate
  /\ gw.stage = "checked"
  /\ method \in RoutedMethods
  /\ calls[GwCaller].state = "idle"
  /\ LET path == sanitizePath(splat) IN
     IF path.isNull
     THEN /\ gw' = [NoGw EXCEPT !.stage = "done", !.via = "route",
                      !.method = method,
                      !.fetchesBefore = nFetch,
                      !.splat = splat,
                      !.audit = <<logSecurityEvent("gateway.blocked.path_traversal",
                                                   mwReq.user.id,
                                                   {"ip", "path", "method"})>>,
                      !.responses = 1, !.status = 400, !.code = "INVALID_PATH"]
          /\ UNCHANGED <<now, tokenVars>>
          /\ UNCHANGED otherThanGateway
     ELSE proxyRequest("route", method, splat, path.path, NoHeaders)

\* proxyRequest called by code other than the routes, with its own headers
\* and the module's base URL and config
proxyDirect(method, headers) ==
  /\ gwCfg.stage = "loaded"
  /\ ~GatewayDisabled(gwCfg)
  /\ mwStage = "idle"
  /\ gw.stage = "idle"
  /\ calls[GwCaller].state = "idle"
  /\ proxyRequest("direct", method, NoSplat, <<"/", "a">>, headers)

\* getAccessToken settled: a rejection propagates; otherwise the url and the
\* headers are built and fetch(url, ..) is called
proxyTokenSettled ==
  /\ gw.stage = "token"
  /\ calls[GwCaller].state \in {"resolved", "rejected"}
  /\ gw' = IF calls[GwCaller].state = "rejected"
           THEN OnProxyError([gw EXCEPT !.tokenOutcome = "rejected"])
           ELSE [gw EXCEPT !.stage = "fetch", !.tokenOutcome = "resolved",
                   !.token = calls[GwCaller].value,
                   !.url = <<"PRIVATE_API_BASE_URL">> \o gw.path,
                   !.sent = FetchHeaders(calls[GwCaller].value, gw.headers),
                   !.outbound = @ + 1]
  /\ Return(GwCaller)
  /\ UNCHANGED cfgOf

\* fetch(url) settled: a network error and a body that is not JSON make
\* proxyRequest throw; otherwise it returns the status and the parsed body
proxyUpstream(response) ==
  /\ gw.stage = "fetch"
  /\ gw' = IF response.net \/ ~response.body.isJson
           THEN OnProxyError([gw EXCEPT !.upstream = response])
           ELSE OnProxyResult([gw EXCEPT !.upstream = response],
                              response.status, response.body.value)
  /\ UNCHANGED <<now, tokenVars>>
  /\ UNCHANGED otherThanGateway

\* the caller of a direct proxyRequest has its result; another call may follow
proxyReturn ==
  /\ gw.stage = "done"
  /\ gw.via = "direct"
  /\ gw' = NoGw
  /\ UNCHANGED <<now, tokenVars>>
  /\ UNCHANGED otherThanGateway

\* the requests reaching the router have no session user, a corrupted one or
\* a valid one
NextGateway ==
  \/ \E raw \in { RawPrim(Undef), RawPrim(Str("garbage")),
                   RawObj(Str("u1"), Str("Test User"), Str("Test User"),
                          Undef, Undef, FALSE) } :
        gwCfg.stage = "loaded" /\ gw.stage = "idle" /\ Arrive(raw, NoTime)
  \/ \E env \in GatewayEnvs : loadGateway(env)
  \/ gatewayConfigured
  \/ gw.stage = "checked" /\ requireAuth
  \/ \E method \in RequestMethods, splat \in Splats :
        gatewayRoute(method, splat)
  \/ \E method \in RequestMethods, splat \in Splats : notFound(method, splat)
  \/ \E method \in {"GET"}, headers \in HeaderOptions :
        proxyDirect(method, headers)
  \/ proxyTokenSettled
  \/ \E response \in UpstreamResponses : proxyUpstream(response)
  \/ proxyReturn
  \/ \E f \in FetchIds, tok \in {"tokA"}, e \in {30, 120} :
        FetchOk(f, tok, e) /\ UNCHANGED <<gw, cfgOf>>
  \/ \E f \in FetchIds, s \in HttpErrors : FetchFail(f, s) /\ UNCHANGED <<gw, cfgOf>>
  \/ clearTokenCache /\ UNCHANGED <<gw, cfgOf>>
  \/ Tick

\* ------------------------------------------------------------------------
\* AuthService: callback URL, driver selection, delegation (auth.service.ts);
\* the mock driver's identities and production guard
\* ------------------------------------------------------------------------
\* the process environments an AuthService is constructed in: every driver
\* name in every NODE_ENV, and every combination of callback URL sources
Environments ==
  LET drivers == [AUTH_DRIVER : {Unset, EnvStr(<<>>), EnvStr(<<"mock">>),
                                 EnvStr(<<"saml">>), EnvStr(<<"jwt">>)},
                  NODE_ENV : {Unset, EnvStr(<<"production">>),
                              EnvStr(<<"development">>)},
                  AUTH_CALLBACK_URL : {Unset}, API_URL : {Unset},
                  RENDER_EXTERNAL_URL : {Unset},
                  RENDER_EXTERNAL_HOSTNAME : {Unset}, HOST : {Unset},
                  PORT : {Unset}]
      urls == [AUTH_DRIVER : {EnvStr(<<"saml">>)},
               NODE_ENV : {EnvStr(<<"production">>), EnvStr(<<"development">>)},
               AUTH_CALLBACK_URL : {Unset, EnvStr(<<"https://custom.url/cb">>)},
               API_URL : {Unset, EnvStr(<<>>),
                          EnvStr(<<"https://api.example.com", "/">>)},
               RENDER_EXTERNAL_URL : {Unset, EnvStr(<<"https://my-app.onrender.com">>)},
               RENDER_EXTERNAL_HOSTNAME : {Unset, EnvStr(<<"my-app.onrender.com">>)},
               HOST : {Unset, EnvStr(<<"127.0.0.1">>), EnvStr(<<"app.example.com">>)},
               PORT : {Unset, EnvStr(<<"8080">>)}]
  IN drivers \cup urls

CALLBACK_PATH == <<"/api/v1/auth/callback">>

\* url.replace(/\/$/, ''): one trailing slash is removed
StripTrailingSlash(s) ==
  IF s # <<>> /\ s[Len(s)] = "/" THEN SubSeq(s, 1, Len(s) - 1) ELSE s

getCallbackUrlApiFirst(env) ==
  IF Configured(env.API_URL)
  THEN StripTrailingSlash(env.API_URL.s) \o CALLBACK_PATH
  ELSE IF Configured(env.AUTH_CALLBACK_URL) THEN env.AUTH_CALLBACK_URL.s
  ELSE <<"http", "://", "localhost", ":", "3000">> \o CALLBACK_PATH
\* AuthService.getCallbackUrl
getCallbackUrl(env) ==
  IF Configured(env.AUTH_CALLBACK_URL) THEN env.AUTH_CALLBACK_URL.s
  ELSE IF Configured(env.API_URL)
  THEN StripTrailingSlash(env.API_URL.s) \o CALLBACK_PATH
  ELSE IF Configured(env.RENDER_EXTERNAL_URL)
  THEN StripTrailingSlash(env.RENDER_EXTERNAL_URL.s) \o CALLBACK_PATH
  ELSE IF Configured(env.RENDER_EXTERNAL_HOSTNAME)
  THEN <<"https", "://">> \o env.RENDER_EXTERNAL_HOSTNAME.s \o CALLBACK_PATH
  ELSE LET host == IF Configured(env.HOST) THEN env.HOST.s ELSE <<"localhost">>
           port == IF Configured(env.PORT) THEN env.PORT.s ELSE <<"3000">>
           isProduction == env.NODE_ENV = EnvStr(<<"production">>)
           protocol == IF isProduction THEN <<"https">> ELSE <<"http">>
           hostWithPort ==
             IF isProduction /\ host # <<"localhost">> /\ host # <<"127.0.0.1">>
             THEN host
             ELSE host \o <<":">> \o port
       IN protocol \o <<"://">> \o hostWithPort \o CALLBACK_PATH

SelectDriverDefaultMock(authDriver) ==
  IF authDriver = <<"saml">> THEN "saml" ELSE "mock"
\* the constructor's switch (authDriver): the driver class constructed,
\* "none" in the default arm
SelectDriver(authDriver) ==
  IF authDriver = <<"mock">> THEN "mock"
  ELSE IF authDriver = <<"saml">> THEN "saml"
  ELSE "none"

MockProductionGuardOff(env) == FALSE
\* MockAuthDriver's constructor throws when NODE_ENV is production
MockProductionGuard(env) == env.NODE_ENV = EnvStr(<<"production">>)

\* the mock driver's default identities, in order
MockUsers == <<"mock-user-1", "mock-user-2", "mock-user-3">>

\* req.query.mockUserId values the callback is called with
Selectors == {Absent, "mock-user-1", "mock-user-2", "nonexistent"}

FindMockUserOrNone(selector) ==
  IF \E k \in DOMAIN MockUsers : MockUsers[k] = selector THEN selector ELSE Absent
\* the identity MockAuthDriver.callback looks up: the one the selector names,
\* the first one when it names none
FindMockUser(selector) ==
  IF \E k \in DOMAIN MockUsers : MockUsers[k] = selector THEN selector
  ELSE MockUsers[1]

\* what the auth callback endpoint has logged and answered
NoHttp == [after |-> "none", event |-> "", userId |-> Absent, status |-> 0,
           location |-> "", responses |-> 0]

OnCallbackSettledProfile(outcome, user) ==
  [after |-> outcome, event |-> "auth.callback.success", userId |-> user,
   status |-> 302, location |-> "/profile", responses |-> 1]
\* AuthController.callback after `await authService.callback(req, res)`: the
\* try branch logs success and redirects to /profile, the catch branch logs
\* the failure and redirects to the login page
OnCallbackSettled(outcome, user) ==
  IF outcome = "returned"
  THEN [after |-> outcome, event |-> "auth.callback.success", userId |-> user,
        status |-> 302, location |-> "/profile", responses |-> 1]
  ELSE [after |-> outcome, event |-> "auth.callback.failed", userId |-> Absent,
        status |-> 302, location |-> "/login?error=auth_failed",
        responses |-> 1]

NoDelegation == [op |-> "none", to |-> "none", selector |-> Absent,
                 outcome |-> "none", result |-> Absent]
NoService == [stage |-> "unbuilt", env |-> CHOOSE e \in Environments :
                                     \A k \in DOMAIN e : e[k] = Unset,
              callbackUrl |-> <<>>, selected |-> "none", driver |-> "none",
              error |-> "", handledBy |-> {}, last |-> NoDelegation,
              http |-> NoHttp, loggedOut |-> FALSE]

\* new AuthService(), run once when the module is loaded
AuthService(env) ==
  /\ svc.stage = "unbuilt"
  /\ LET authDriver == IF Configured(env.AUTH_DRIVER) THEN env.AUTH_DRIVER.s
                       ELSE <<"mock">>
         callbackUrl == getCallbackUrl(env)
         selected == SelectDriver(authDriver)
         error == IF selected = "none" THEN "Unsupported auth driver"
                  ELSE IF selected = "mock" /\ MockProductionGuard(env)
                       THEN "MockAuthDriver cannot be used in production"
                       ELSE ""
     IN svc' = [svc EXCEPT !.stage = IF error = "" THEN "built" ELSE "threw",
                           !.env = env,
                           !.callbackUrl = callbackUrl,
                           !.selected = selected,
                           !.driver = IF error = "" THEN selected ELSE "none",
                           !.error = error]
  /\ UNCHANGED <<now, gw, gwCfg, client, cfgOf, tokenVars, sessionVars, codecVars, authzVars, csrfVars>>

\* login, logout, getCurrentUser, hasRole: each calls this.driver
delegate(op) ==
  /\ svc.stage = "built"
  /\ svc.last.outcome # "pending"
  /\ svc.last.op = "callback" => svc.http # NoHttp
  /\ svc' = [svc EXCEPT !.handledBy = @ \cup {svc.driver},
                        !.last = [NoDelegation EXCEPT !.op = op, !.to = svc.driver,
                                                      !.outcome = "returned"]]
  /\ UNCHANGED <<now, gw, gwCfg, client, cfgOf, tokenVars, sessionVars, codecVars, authzVars, csrfVars>>

\* callback: this.driver.callback(req, res).  The mock driver looks the
\* identity up and saves it; the federated driver saves the principal of a
\* valid assertion and raises an authentication failure on an invalid one.
callback(selector, assertion) ==
  /\ svc.stage = "built"
  /\ pc = "idle"
  /\ LET called == [NoDelegation EXCEPT !.op = "callback", !.to = svc.driver,
                                        !.selector = selector]
     IN IF svc.driver = "mock"
        THEN /\ saveUserToSession(FindMockUser(selector))
             /\ svc' = [svc EXCEPT !.handledBy = @ \cup {svc.driver},
                                   !.http = NoHttp,
                                   !.last = [called EXCEPT !.outcome = "pending"]]
        ELSE IF assertion.valid
        THEN /\ saveUserToSession(assertion.user)
             /\ svc' = [svc EXCEPT !.handledBy = @ \cup {svc.driver},
                                   !.http = NoHttp,
                                   !.last = [called EXCEPT !.selector = Absent,
                                                           !.outcome = "pending"]]
        ELSE /\ svc' = [svc EXCEPT !.handledBy = @ \cup {svc.driver},
                                   !.http = NoHttp,
                                   !.last = [called EXCEPT !.selector = Absent,
                                                           !.outcome = "rejected"]]
             /\ UNCHANGED <<now, gw, gwCfg, client, cfgOf, tokenVars, sessionVars, codecVars,
                            authzVars, csrfVars>>

\* `await this.saveUserToSession(req, user)` settles: the callback returns the
\* user when the save resolved and rejects with its error when it rejected
callbackSettled ==
  /\ svc.last.op = "callback"
  /\ svc.last.outcome = "pending"
  /\ pc \in {"resolved", "rejectedRegen", "rejectedSave"}
  /\ svc' = [svc EXCEPT !.last.outcome = IF pc = "resolved" THEN "returned"
                                         ELSE "rejected",
                        !.last.result = IF pc = "resolved" THEN userArg ELSE Absent,
                        !.loggedOut = IF pc = "resolved" THEN FALSE ELSE @]
  /\ UNCHANGED <<now, gw, gwCfg, client, cfgOf, tokenVars, sessionVars, codecVars, authzVars, csrfVars>>

\* AuthController.callback once the service's callback has settled
callbackEndpoint ==
  /\ svc.last.op = "callback"
  /\ svc.last.outcome \in {"returned", "rejected"}
  /\ svc.http = NoHttp
  /\ svc' = [svc EXCEPT !.http = OnCallbackSettled(svc.last.outcome,
                                                   svc.last.result)]
  /\ UNCHANGED <<now, gw, gwCfg, client, cfgOf, tokenVars, sessionVars, codecVars, authzVars, csrfVars>>

NextAuthService ==
  \/ \E env \in Environments : AuthService(env)
  \/ \E op \in {"login", "logout", "getCurrentUser", "hasRole"} : delegate(op)
  \/ \E csrf \in {Absent, "secretA"} : Request(csrf, Absent, Absent) /\ UNCHANGED svc
  \/ \E selector \in Selectors,
        assertion \in {[valid |-> TRUE, user |-> "alice"],
                       [valid |-> FALSE, user |-> Absent]} :
        callback(selector, assertion)
  \/ \E i \in SessionIds : RegenerateOk(i) /\ UNCHANGED svc
  \/ \E err \in ErrValues, i \in SessionIds :
        RegenerateFail(err, i, FALSE, FALSE) /\ UNCHANGED svc
  \/ SaveOk /\ UNCHANGED svc
  \/ \E err \in ErrValues, w \in BOOLEAN : SaveFail(err, w) /\ UNCHANGED svc
  \/ callbackSettled
  \/ callbackEndpoint

\* ------------------------------------------------------------------------
\* One browser session through successive requests: the CSRF guard, the
\* callback, the logout endpoint and the authorization middleware act on
\* the session the store keeps for the browser's cookie
\* ------------------------------------------------------------------------
\* the value session.user holds for a principal the callback saved
SessionRaw(u) ==
  IF u = Absent THEN RawPrim(Undef)
  ELSE RawObj(Str(u), Str("user@example.com"), Str("Test User"),
              Arr(<<Str("user")>>), Undef, FALSE)

\* the session middleware on the request after a callback was answered: the
\* session of the cookie is read from the store, a new empty one, to which
\* no token has been issued, when the store holds none
sessionLoad ==
  /\ pc \in {"resolved", "rejectedRegen", "rejectedSave"}
  /\ svc.http # NoHttp
  /\ LET kept == store[sess.id]
         s == IF kept.exists
              THEN [id |-> sess.id, csrfSecret |-> kept.csrfSecret,
                    user |-> kept.user, lastAuthAt |-> kept.lastAuthAt]
              ELSE [NoSess EXCEPT !.id = sess.id]
     IN /\ sess' = s
        /\ csrfSecret' = s.csrfSecret
        /\ csrfIssued' = IF kept.exists THEN csrfIssued ELSE {}
  /\ pc' = "idle"
  /\ UNCHANGED <<now, store, csrfKept, userArg, reported, rejection, saveCalls,
                 pre, startAt, endAt, csrfLast, svc, gw, gwCfg, client, cfgOf,
                 tokenVars, codecVars, authzVars>>

\* the driver's logout as AuthController.logout sees it
LogoutOutcomes == [resolved : BOOLEAN, headersSent : BOOLEAN]

\* AuthController.logout: the driver destroys the session and clears the
\* cookie; the controller answers with its own JSON unless the driver has
\* already sent a response
logoutEndpoint(outcome) ==
  /\ svc.stage = "built"
  /\ pc = "idle"
  /\ mwStage = "idle"
  /\ outcome.headersSent => svc.driver = "saml"
  /\ LET user == sess.user
         own  == IF ~outcome.headersSent THEN 1 ELSE 0
         sent == IF outcome.headersSent THEN 1 ELSE 0
     IN svc' = [svc EXCEPT
                  !.handledBy = @ \cup {svc.driver},
                  !.last = [NoDelegation EXCEPT
                              !.op = "logout", !.to = svc.driver,
                              !.outcome = IF outcome.resolved THEN "returned"
                                          ELSE "rejected"],
                  !.http = [after |-> IF outcome.resolved THEN "returned"
                                      ELSE "rejected",
                            event |-> IF outcome.resolved
                                      THEN "auth.logout.success"
                                      ELSE "auth.logout.failed",
                            userId |-> user,
                            status |-> IF outcome.headersSent THEN 302
                                       ELSE IF outcome.resolved THEN 200
                                       ELSE 500,
                            location |-> "",
                            responses |-> sent + own],
                  !.loggedOut = outcome.resolved \/ @]
  /\ IF outcome.resolved
     THEN /\ store' = [store EXCEPT ![sess.id] = NoStored]
          /\ sess' = [NoSess EXCEPT !.id = sess.id]
          /\ csrfSecret' = Absent
          /\ csrfIssued' = {}
     ELSE UNCHANGED <<store, sess, csrfSecret, csrfIssued>>
  /\ UNCHANGED <<now, pc, csrfKept, userArg, reported, rejection, saveCalls,
                 pre, startAt, endAt, csrfLast, gw, gwCfg, client, cfgOf, tokenVars,
                 codecVars, authzVars>>

\* a guard that lets every request through to the routes
CsrfPassedAlways == TRUE
\* app.use(csrfProtection) precedes every route: a request reaches the
\* routers only when the CSRF guard has called next() for it
CsrfPassed == csrfLast.kind # "none" /\ csrfLast.next

\* callbacks one browser session goes through
MaxCallbacks == 1

\* paths of the protected routes; in NextLifecycle the requests are handled
\* one after the other, and the clock ticks between them
ProtectedPaths == {"/api/v1/data/items"}

NextLifecycle ==
  \/ AuthService([NoService.env EXCEPT
                    !.AUTH_DRIVER = EnvStr(<<"saml">>),
                    !.NODE_ENV = EnvStr(<<"production">>)])
  \/ \E method \in {"GET", "POST"}, path \in ProtectedPaths,
        channel \in {"none", "header"},
        token \in csrfIssued \cup {NoCsrfToken,
                                   DeriveToken("totally-invalid-token", 0)} :
        /\ mwStage = "idle"
        /\ pc \in {"none", "idle"}
        /\ csrfSecret # Absent \/ pc = "none"
        /\ method = "GET" => channel = "none"
        /\ csrfProtection(method, path, channel, token, "secretA", 1)
  \/ \E prior \in {Absent, "bob"} :
        Request(csrfSecret, prior, Absent) /\ UNCHANGED svc
  \/ /\ saveCalls < MaxCallbacks
     /\ callback(Absent, [valid |-> TRUE, user |-> "alice"])
  \/ \E i \in SessionIds : RegenerateOk(i) /\ UNCHANGED svc
  \/ \E err \in {CHOOSE e \in ErrValues : TRUE}, i \in SessionIds :
        RegenerateFail(err, i, FALSE, FALSE) /\ UNCHANGED svc
  \/ SaveOk /\ UNCHANGED svc
  \/ \E err \in {CHOOSE e \in ErrValues : TRUE}, w \in BOOLEAN :
        SaveFail(err, w) /\ UNCHANGED svc
  \/ callbackSettled
  \/ callbackEndpoint
  \/ sessionLoad
  \/ \E outcome \in LogoutOutcomes : logoutEndpoint(outcome)
  \/ /\ pc = "idle"
     /\ CsrfPassed
     /\ Arrive(SessionRaw(sess.user), sess.lastAuthAt)
  \/ requireAuth
  \/ requireRecentAuth(1)
  \/ pc \in {"none", "idle"} /\ mwStage = "idle" /\ Tick

\* ------------------------------------------------------------------------
\* The web client's auth store (apps/web/src/stores/auth.store.ts)
\* ------------------------------------------------------------------------
MeRequests == 1..MaxMeRequests

NoPromise == [state |-> "none", value |-> Absent]
NoMeResponse == [kind |-> "none", success |-> FALSE, user |-> Absent,
                 status |-> 0, message |-> ""]

\* what GET /auth/me can settle with: a body with or without success, an
\* error response with or without a message, or no response at all
MeResponses ==
  { [NoMeResponse EXCEPT !.kind = "ok", !.success = TRUE, !.user = "alice",
                         !.status = 200],
    [NoMeResponse EXCEPT !.kind = "ok", !.status = 200],
    [NoMeResponse EXCEPT !.kind = "error", !.status = 401],
    [NoMeResponse EXCEPT !.kind = "error", !.status = 500,
                         !.message = "Server error"],
    [NoMeResponse EXCEPT !.kind = "error", !.status = 500],
    [NoMeResponse EXCEPT !.kind = "network"] }

\* user = ref(null), loading = ref(false), error = ref(null),
\* fetchPromise = null; the promises fetchUser has created and the one each
\* caller was handed
NoClient ==
  [user |-> Absent, loading |-> FALSE, error |-> Absent, fetchPromise |-> 0,
   requests |-> 0, promises |-> [r \in MeRequests |-> NoPromise],
   held |-> [c \in Callers |-> 0], logout |-> "idle", last |-> NoMeResponse]

\* a catch branch that reports the 401 as an error
OnFetchUserSettledReports401(st, response) ==
  IF response.kind = "ok" /\ response.success
  THEN [user |-> response.user, error |-> st.error, value |-> response.user]
  ELSE IF response.kind = "ok"
  THEN [user |-> Absent, error |-> st.error, value |-> Absent]
  ELSE [user |-> st.user,
        error |-> IF response.message # "" THEN response.message
                  ELSE "Failed to fetch user",
        value |-> Absent]
\* the try and catch blocks of fetchUser once axios.get has settled
OnFetchUserSettled(st, response) ==
  IF response.kind = "ok" /\ response.success
  THEN [user |-> response.user, error |-> st.error, value |-> response.user]
  ELSE IF response.kind = "ok"
  THEN [user |-> Absent, error |-> st.error, value |-> Absent]
  ELSE IF response.kind = "error" /\ response.status = 401
  THEN [user |-> Absent, error |-> st.error, value |-> Absent]
  ELSE [user |-> st.user,
        error |-> IF response.message # "" THEN response.message
                  ELSE "Failed to fetch user",
        value |-> Absent]

\* fetchUser(): the promise in flight is returned when there is one; else
\* loading and error are set, the request is issued and its promise kept
fetchUser(c) ==
  /\ client.held[c] = 0
  /\ IF client.fetchPromise # 0
     THEN client' = [client EXCEPT !.held[c] = client.fetchPromise]
     ELSE /\ client.requests < MaxMeRequests
          /\ LET r == client.requests + 1
             IN client' = [client EXCEPT
                             !.loading = TRUE, !.error = Absent,
                             !.requests = r, !.fetchPromise = r,
                             !.promises[r] = [state |-> "pending",
                                              value |-> Absent],
                             !.held[c] = r]
  /\ UNCHANGED now
  /\ UNCHANGED otherThanClient

\* axios.get settles: try or catch, then `finally` clears loading and
\* fetchPromise
fetchUserSettled(r, response) ==
  /\ client.promises[r].state = "pending"
  /\ LET o == OnFetchUserSettled(client, response)
     IN client' = [client EXCEPT
                     !.user = o.user, !.error = o.error,
                     !.loading = FALSE, !.fetchPromise = 0,
                     !.promises[r] = [state |-> "resolved", value |-> o.value],
                     !.last = response]
  /\ UNCHANGED now
  /\ UNCHANGED otherThanClient

\* the caller has the value of the promise it was handed; it may call again
fetchUserReturned(c) ==
  /\ client.held[c] # 0
  /\ client.promises[client.held[c]].state = "resolved"
  /\ client' = [client EXCEPT !.held[c] = 0]
  /\ UNCHANGED now
  /\ UNCHANGED otherThanClient

\* logout(): up to `await axios.post(..)`
logout ==
  /\ client.logout = "idle"
  /\ client' = [client EXCEPT !.loading = TRUE, !.error = Absent,
                              !.logout = "pending"]
  /\ UNCHANGED now
  /\ UNCHANGED otherThanClient

\* logout(): the post settled
logoutSettled(ok, message) ==
  /\ client.logout = "pending"
  /\ client' = [client EXCEPT
                  !.user = IF ok THEN Absent ELSE @,
                  !.error = IF ok THEN @
                            ELSE IF message # "" THEN message
                            ELSE "Failed to logout",
                  !.loading = FALSE,
                  !.logout = "idle"]
  /\ UNCHANGED now
  /\ UNCHANGED otherThanClient

NextClient ==
  \/ \E c \in Callers : fetchUser(c)
  \/ \E r \in MeRequests, response \in MeResponses : fetchUserSettled(r, response)
  \/ \E c \in Callers : fetchUserReturned(c)
  \/ logout
  \/ \E ok \in BOOLEAN, message \in {"", "Server error"} : logoutSettled(ok, message)

\* ------------------------------------------------------------------------
\* getAccessToken(config) with two client configurations
\* ------------------------------------------------------------------------
Configs == {"A", "B"}
NoConfig == "none"
NoConfigs == [call |-> [c \in Callers |-> NoConfig],
              fetch |-> [f \in FetchIds |-> NoConfig],
              cached |-> NoConfig,
              got |-> [c \in Callers |-> NoConfig]]

\* getAccessToken(config): fetchToken(config) is called with the caller's
\* config; a cache hit hands out the cached token, whatever config it was
\* requested with
getAccessTokenWith(c, config) ==
  /\ getAccessToken(c)
  /\ cfgOf' = [cfgOf EXCEPT
                 !.call[c] = config,
                 !.fetch = IF nFetch' > nFetch
                           THEN [@ EXCEPT ![nFetch'] = config] ELSE @,
                 !.got[c] = IF calls'[c].state = "resolved"
                            THEN cfgOf.cached ELSE NoConfig]
  /\ UNCHANGED gw

\* the token request of fetch f is answered: the token it stores and hands
\* to the calls awaiting it was requested with f's config
FetchOkWith(f, tok, expiresIn) ==
  /\ FetchOk(f, tok, expiresIn)
  /\ cfgOf' = [cfgOf EXCEPT
                 !.cached = cfgOf.fetch[f],
                 !.got = [c \in Callers |->
                            IF calls[c].state = "waiting" /\ calls[c].awaits = f
                            THEN cfgOf.fetch[f] ELSE @[c]]]
  /\ UNCHANGED gw

clearTokenCacheWith ==
  /\ clearTokenCache
  /\ cfgOf' = [cfgOf EXCEPT !.cached = NoConfig]
  /\ UNCHANGED gw

ReturnWith(c) ==
  /\ Return(c)
  /\ cfgOf' = [cfgOf EXCEPT !.call[c] = NoConfig, !.got[c] = NoConfig]
  /\ UNCHANGED gw

NextBinding ==
  \/ \E c \in Callers, config \in Configs : getAccessTokenWith(c, config)
  \/ \E f \in FetchIds : FetchOkWith(f, "tokA", 120)
  \/ \E f \in FetchIds : FetchFail(f, 500) /\ UNCHANGED <<gw, cfgOf>>
  \/ clearTokenCacheWith
  \/ \E c \in Callers : ReturnWith(c)
  \/ Tick

\* every issued token fetch eventually completes, and every caller takes
\* the outcome of its call
FetchCompletes(f) ==
  \/ \E tok \in Tokens, e \in ExpiresInValues : FetchOk(f, tok, e) /\ UNCHANGED <<gw, cfgOf>>
  \/ \E s \in HttpErrors : FetchFail(f, s) /\ UNCHANGED <<gw, cfgOf>>

Init == now = StartMs /\ InitToken /\ InitSession /\ InitCodec /\ InitAuthz /\ InitCsrf /\ gw = NoGw
        /\ svc = NoService /\ gwCfg = NoGatewayConfig
        /\ client = NoClient /\ cfgOf = NoConfigs

NextSession ==
  \/ \E csrf \in CsrfSecrets \cup {Absent}, prior \in Users \cup {Absent},
        other \in Users \cup {Absent} : Request(csrf, prior, other) /\ UNCHANGED svc
  \/ \E u \in Users : saveUserToSession(u) /\ UNCHANGED svc
  \/ \E i \in SessionIds : RegenerateOk(i) /\ UNCHANGED svc
  \/ \E err \in ErrValues, i \in SessionIds, d, r \in BOOLEAN :
        RegenerateFail(err, i, d, r) /\ UNCHANGED svc
  \/ SaveOk /\ UNCHANGED svc
  \/ \E err \in ErrValues, w \in BOOLEAN : SaveFail(err, w) /\ UNCHANGED svc
  \/ Tick

NextToken ==
  \/ \E c \in Callers : getAccessToken(c) /\ UNCHANGED <<gw, cfgOf>>
  \/ \E f \in FetchIds, tok \in Tokens, e \in ExpiresInValues :
        FetchOk(f, tok, e) /\ UNCHANGED <<gw, cfgOf>>
  \/ \E f \in FetchIds, s \in HttpErrors : FetchFail(f, s) /\ UNCHANGED <<gw, cfgOf>>
  \/ clearTokenCache /\ UNCHANGED <<gw, cfgOf>>
  \/ \E c \in Callers : Return(c) /\ UNCHANGED <<gw, cfgOf>>
  \/ Tick

SpecToken == Init /\ [][NextToken]_vars

SpecSession == Init /\ [][NextSession]_vars

SpecCodec == Init /\ [][NextCodec]_vars

SpecAuthz == Init /\ [][NextAuthz]_vars

SpecCsrf == Init /\ [][NextCsrf]_vars

SpecGateway == Init /\ [][NextGateway]_vars

SpecAuthService == Init /\ [][NextAuthService]_vars

SpecLifecycle == Init /\ [][NextLifecycle]_vars

SpecClient == Init /\ [][NextClient]_vars

SpecBinding == Init /\ [][NextBinding]_vars

\* the token cache when every issued token fetch eventually completes
SpecTokenLive ==
  Init /\ [][NextToken]_vars /\ \A f \in FetchIds : WF_vars(FetchCompletes(f))

\* ------------------------------------------------------------------------
\* Properties of the token cache
\* ------------------------------------------------------------------------
\* caller c issues a getAccessToken call in this step
CallStep(c) == calls[c].state = "idle" /\ calls'[c].state # "idle"
\* the call of caller c is handed a token in this step
ResolveStep(c) == calls[c].state # "resolved" /\ calls'[c].state = "resolved"
\* a token request is answered with a non-OK status in this step
FailStep(f) == fetches[f] = "pending" /\ fetches'[f] = "failed"
\* the cache is empty or expired, in the words of the specification
CacheStale == cachedToken = NoCached \/ ~(now < cachedToken.expiresAt - 60000)

\* C1: a getAccessToken call issued while the cache is empty or expired and a
\* token fetch is still unresolved issues no further network fetch and shares
\* that fetch, and all calls resolved by one fetch get the identical token.
C1_Dedup ==
  [][ /\ \A c \in Callers :
           (CallStep(c) /\ CacheStale /\ Pending # {})
             => (nFetch' = nFetch /\ calls'[c].awaits \in Pending)
      /\ \A c, d \in Callers :
           (ResolveStep(c) /\ ResolveStep(d)) => calls'[c].value = calls'[d].value
    ]_vars

\* C2: in every reachable state at most one token fetch is in flight.
C2_SingleWriter == Cardinality(Pending) <= 1

\* C3: a getAccessToken call made while a token is cached and
\* now < expiresAt - 60000 returns the cached token and issues no fetch.
C3_CacheHit ==
  [][ \A c \in Callers :
        (CallStep(c) /\ cachedToken # NoCached
                     /\ now < cachedToken.expiresAt - 60000)
          => /\ calls'[c].state = "resolved"
             /\ calls'[c].value = cachedToken.accessToken
             /\ nFetch' = nFetch
             /\ fetches' = fetches
             /\ cachedToken' = cachedToken
    ]_vars

C3_Witness ==
  \E c \in Callers : /\ calls[c].state = "resolved"
                     /\ calls[c].source = "cache"
                     /\ calls[c].value = cachedToken.accessToken
                     /\ nFetch = 1

\* C4 (as stated): no call is handed a token for which
\* now > expiresAt - bufferMs at the moment of return, whatever its origin.
C4_NeverStale ==
  [][ \A c \in Callers :
        ResolveStep(c) => ~(now' > cachedToken'.expiresAt - 60000)
    ]_vars

\* C4 (amended): a token returned from the cache satisfies
\* now < expiresAt - bufferMs at the moment of return; a token handed out by a
\* completing fetch (to the issuing call and to the calls sharing it) is the
\* token just cached, with expiresAt = now + expires_in*1000 for the
\* expires_in the endpoint returned, whatever that value is.
C4_CacheNeverStale ==
  [][ \A c \in Callers :
        ResolveStep(c) =>
          /\ calls'[c].value = cachedToken'.accessToken
          /\ IF calls'[c].source = "cache"
             THEN now' < cachedToken'.expiresAt - 60000
             ELSE \E e \in ExpiresInValues :
                     cachedToken'.expiresAt = now' + e * 1000
    ]_vars

C4_Witness ==
  \E c, d \in Callers :
     /\ calls[c].state = "resolved" /\ calls[c].source = "cache"
     /\ calls[d].state = "resolved" /\ calls[d].source \in {"fetch", "shared"}

\* C5: after clearTokenCache has returned, the next getAccessToken call
\* issues a new network fetch.
C5_ForcedRotation ==
  [][ \A c \in Callers : (CallStep(c) /\ sinceClear) => nFetch' = nFetch + 1 ]_vars

\* C6: when the token endpoint answers with a non-OK status, every call
\* sharing that fetch fails with an error carrying the status, the cached
\* token is unchanged, the in-flight marker is cleared, no retry is issued,
\* and the next getAccessToken call starts a new fetch.
C6_Failure ==
  [][ /\ \A f \in FetchIds :
           FailStep(f) =>
             /\ \A c \in Callers :
                  (calls[c].state = "waiting" /\ calls[c].awaits = f)
                    => (calls'[c].state = "rejected" /\ calls'[c].error \in HttpErrors)
             /\ cachedToken' = cachedToken
             /\ fetchPromise' = NoFetch
             /\ nFetch' = nFetch
      /\ \A c \in Callers : (CallStep(c) /\ sinceFail) => nFetch' = nFetch + 1
    ]_vars

\* ------------------------------------------------------------------------
\* Properties of the session-save protocol
\* ------------------------------------------------------------------------
PreIds == IdsOf(pre.sess, pre.store)
\* the callback has written the principal into req.session
UserWritten == pc \in {"saving", "resolved", "rejectedSave"}

\* C7: when saveUserToSession resolves, csrfSecret is what it was before the
\* call (absent if it was absent), user is the given principal and lastAuthAt
\* lies between the start and the end of the call.
C7_SavePostcondition ==
  pc = "resolved" =>
    /\ sess.csrfSecret = pre.sess.csrfSecret
    /\ sess.user = userArg
    /\ startAt <= sess.lastAuthAt
    /\ sess.lastAuthAt <= endAt

C7_Witness ==
  /\ pc = "resolved"
  /\ pre.sess.csrfSecret \in CsrfSecrets
  /\ pre.sess.user # Absent
  /\ startAt < sess.lastAuthAt
  /\ sess.lastAuthAt < endAt

\* C8: once the callback has written the principal, the session carries an
\* identifier that did not exist before the call, and no identifier that
\* existed before the call ever gains content from the call.
C8_NoFixation ==
  /\ UserWritten => sess.id \notin PreIds
  /\ pc \notin {"none", "idle"} =>
       \A i \in PreIds : store[i] \in {NoStored, pre.store[i]}

C8_Witness ==
  /\ pc = "resolved"
  /\ pre.store[pre.sess.id].exists
  /\ store[sess.id].user = userArg
  /\ ~store[pre.sess.id].exists

\* C9: if regeneration reports an error the call rejects with it (as an Error
\* carrying the reported message, the reported object itself when that is an
\* Error), save is never invoked, and neither user nor lastAuthAt is written.
C9_RegenerateFailure ==
  pc = "rejectedRegen" =>
    /\ rejection.isError
    /\ rejection.msg = reported.msg
    /\ (reported.isError => rejection = reported)
    /\ saveCalls = 0
    /\ sess \in {pre.sess, (EmptyFields @@ [id |-> sess.id])}
    /\ \A i \in SessionIds : store[i] \in {NoStored, pre.store[i]}

C9_Witness ==
  /\ pc = "rejectedRegen"
  /\ reported \in ErrValues
  /\ pre.sess.user = Absent
  /\ sess.user = Absent

\* C10: saveUserToSession either completes entirely or fails leaving the
\* session without the new user and lastAuthAt, in memory and in the store.
C10_Atomic ==
  /\ pc = "resolved" =>
       /\ sess.id \notin PreIds
       /\ sess.csrfSecret = pre.sess.csrfSecret
       /\ sess.user = userArg
       /\ store[sess.id] = Stored(sess)
  /\ pc \in {"rejectedRegen", "rejectedSave"} =>
       /\ sess.user = Absent \/ sess = pre.sess
       /\ \A i \in SessionIds : store[i] \in {NoStored, pre.store[i]}

\* ------------------------------------------------------------------------
\* Properties of the principal codec and of hasRole
\* ------------------------------------------------------------------------
\* the value matches the Principal shape: an object whose id, email and name
\* are strings, whose roles (if any) is a list of strings and whose
\* attributes (if any) maps to strings, numbers, booleans or null
PrincipalShaped(raw) ==
  /\ raw.t = "object"
  /\ \A f \in {"id", "email", "name"} : raw[f].t = "string"
  /\ raw.roles.t # "undefined" =>
       /\ raw.roles.t = "array"
       /\ \A k \in DOMAIN raw.roles.items : raw.roles.items[k].t = "string"
  /\ raw.attributes.t # "undefined" =>
       /\ raw.attributes.t = "object"
       /\ \A k \in DOMAIN raw.attributes.items :
             raw.attributes.items[k].t \in {"string", "number", "boolean", "null"}

\* C16: getUser yields null for every raw value that is absent, lacks id,
\* email or name, or has a wrong-typed field, and yields the principal (its
\* id, email, name, roles and attributes) for every value of the Principal
\* shape.
C16_Decode ==
  codecPc # "idle" =>
    IF PrincipalShaped(decodeArg)
    THEN /\ decodeRes # NoPrincipal
         /\ \A f \in {"id", "email", "name", "roles", "attributes"} :
               decodeRes[f] = decodeArg[f]
    ELSE decodeRes = NoPrincipal

C16_Witness ==
  /\ codecPc = "getUser"
  /\ decodeArg.t = "object"
  /\ decodeArg.roles = Arr(<<Str("user"), Num("123")>>)
  /\ decodeArg.id = Str("u1")
  /\ decodeRes = NoPrincipal

\* C17: every principal that passes validation has a non-empty id, email
\* and name.
C17_NonEmpty ==
  (codecPc # "idle" /\ decodeRes # NoPrincipal) =>
    \A f \in {"id", "email", "name"} :
       decodeRes[f].t = "string" /\ decodeRes[f].v # ""

\* C18: hasRole is true iff the principal is non-null, has a roles field and
\* its role set intersects the requested set.
C18_HasRole ==
  codecPc = "hasRole" =>
    (roleRes <=>
       /\ decodeRes # NoPrincipal
       /\ decodeRes.roles.t # "undefined"
       /\ {decodeRes.roles.items[k] : k \in DOMAIN decodeRes.roles.items}
            \cap (IF roleArg.t = "array"
                  THEN {roleArg.items[k] : k \in DOMAIN roleArg.items}
                  ELSE {roleArg}) # {})

C18_Witness ==
  /\ codecPc = "hasRole"
  /\ roleArg = Arr(<<Str("super-admin"), Str("user")>>)
  /\ decodeRes.roles = Arr(<<Str("admin"), Str("user")>>)
  /\ roleRes

\* ------------------------------------------------------------------------
\* Properties of the auth middleware
\* ------------------------------------------------------------------------
\* the session holds no user: nothing, or an empty value
NoSessionUser(raw) ==
  \/ raw.t \in {"undefined", "null"}
  \/ raw.t = "string" /\ raw.v = ""
  \/ raw.t = "number" /\ raw.v = "0"
  \/ raw.t = "boolean" /\ raw.v = "false"

CalledNext == \E k \in DOMAIN mwOut : mwOut[k].kind = "next"

\* C11: requireAuth has exactly three outcomes: no session user => 401 and
\* the session is kept; a session user failing the Principal schema => the
\* session is destroyed and 401; a valid session user => the validated
\* principal is attached and next() is called; next() is not called in the
\* first two cases.
C11_RequireAuth ==
  mwLast.name = "requireAuth" =>
    IF NoSessionUser(mwReq.sessUser)
    THEN /\ mwRes.sent /\ mwRes.status = 401
         /\ ~mwReq.destroyed /\ ~CalledNext /\ mwReq.user = Unattached
    ELSE IF ~PrincipalShaped(mwReq.sessUser)
    THEN /\ mwRes.sent /\ mwRes.status = 401
         /\ mwReq.destroyed /\ ~CalledNext /\ mwReq.user = Unattached
    ELSE /\ ~mwRes.sent /\ CalledNext /\ ~mwReq.destroyed
         /\ PrincipalShaped(mwReq.user)
         /\ \A f \in {"id", "email", "name", "roles", "attributes"} :
               mwReq.user[f] = mwReq.sessUser[f]

C11_Witness ==
  /\ mwLast.name = "requireAuth"
  /\ mwReq.sessUser.t = "object"
  /\ mwReq.sessUser.name = Undef
  /\ mwReq.destroyed
  /\ mwRes.status = 401

\* C12: requireRole(R) answers 401 when no principal is attached; with a
\* principal attached it calls next() iff the principal's roles contain at
\* least one element of R (exact match), else answers 403 without calling
\* next(); a principal without a roles field has no roles.
C12_RequireRole ==
  mwLast.name = "requireRole" =>
    IF mwReq.user = Unattached
    THEN mwRes.sent /\ mwRes.status = 401 /\ ~CalledNext
    ELSE LET held  == IF mwReq.user.roles.t = "undefined" THEN {}
                      ELSE {mwReq.user.roles.items[k] :
                              k \in DOMAIN mwReq.user.roles.items}
             asked == {mwLast.roles[k] : k \in DOMAIN mwLast.roles}
         IN  IF held \cap asked # {}
             THEN CalledNext /\ ~mwRes.sent
             ELSE mwRes.sent /\ mwRes.status = 403 /\ ~CalledNext

C12_Witness ==
  /\ mwLast.name = "requireRole"
  /\ mwLast.roles = <<Str("admin"), Str("user")>>
  /\ mwReq.user.roles = Arr(<<Str("user")>>)
  /\ CalledNext

\* C13: requireRecentAuth(maxAgeMinutes) with a principal attached calls
\* next() iff lastAuthAt is present and now - lastAuthAt does not exceed
\* maxAgeMinutes*60*1000 ms, and otherwise answers 401
\* REAUTHENTICATION_REQUIRED without calling next(); with no principal
\* attached it answers 401.
C13_RequireRecentAuth ==
  mwLast.name = "requireRecentAuth" =>
    IF mwReq.user = Unattached
    THEN mwRes.sent /\ mwRes.status = 401 /\ ~CalledNext
    ELSE IF /\ mwReq.lastAuthAt # NoTime
            /\ mwLast.at - mwReq.lastAuthAt <= mwLast.maxAgeMinutes * 60 * 1000
    THEN CalledNext /\ ~mwRes.sent
    ELSE /\ mwRes.sent /\ mwRes.status = 401
         /\ mwRes.code = "REAUTHENTICATION_REQUIRED" /\ ~CalledNext

C13_Witness ==
  /\ mwLast.name = "requireRecentAuth"
  /\ mwLast.maxAgeMinutes = 1
  /\ mwReq.lastAuthAt # NoTime
  /\ mwLast.at - mwReq.lastAuthAt = 60000
  /\ CalledNext

\* C14: optionalAuth always calls next() and never responds, and attaches a
\* principal only if the session user is present and valid against the
\* Principal schema.
C14_OptionalAuth ==
  mwLast.name = "optionalAuth" =>
    /\ CalledNext
    /\ ~mwRes.sent
    /\ mwReq.user # Unattached => PrincipalShaped(mwReq.sessUser)

\* C15: every 401 or 403 of requireAuth, requireRole and requireRecentAuth
\* and the gateway's path-traversal 400 is preceded by a security audit event
\* carrying the event name, the subject id (or anonymous), ip, path and
\* method.
C15_AuditBeforeDenial ==
  ( \/ /\ mwLast.name \in {"requireAuth", "requireRole", "requireRecentAuth"}
       /\ mwRes.sent /\ mwRes.status \in {401, 403}
    \/ /\ mwLast.name = "gatewayGet"
       /\ mwRes.sent /\ mwRes.status = 400 ) =>
    \E i \in DOMAIN mwOut :
      /\ mwOut[i].kind = "audit"
      /\ mwOut[i].event # ""
      /\ mwOut[i].userId # ""
      /\ \A key \in {"ip", "path", "method"} :
            key \in DOMAIN mwOut[i].details /\ mwOut[i].details[key] = "value"
      /\ \E j \in DOMAIN mwOut : j > i /\ mwOut[j].kind = "response"

\* ------------------------------------------------------------------------
\* Properties of the CSRF guard
\* ------------------------------------------------------------------------
\* C19: a state-changing request on a non-exempt path calls next() iff it
\* carries, in the header or the body field, a token derived from the
\* csrfSecret of its session; without a token it is rejected 403
\* CSRF_MISSING, with a non-matching token 403 CSRF_INVALID, and next() is
\* not called on rejection.
C19_CsrfValidation ==
  csrfLast.kind = "unsafe" =>
    LET carries == csrfLast.channel \in {"header", "body"}
        matches == /\ csrfLast.secretBefore \in CsrfSecrets
                   /\ csrfLast.token \in
                        {DeriveToken(csrfLast.secretBefore, n) : n \in 1..MaxSalts}
    IN  /\ csrfLast.next <=> (carries /\ matches)
        /\ ~carries => csrfLast.status = 403 /\ csrfLast.code = "CSRF_MISSING"
        /\ (carries /\ ~matches) =>
              csrfLast.status = 403 /\ csrfLast.code = "CSRF_INVALID"
        /\ csrfLast.next => csrfLast.status = 0

C19_Witness ==
  /\ csrfLast.kind = "unsafe"
  /\ csrfLast.channel = "body"
  /\ csrfLast.token \in csrfIssued
  /\ csrfLast.next

\* C20: a safe-method request on a session without csrfSecret stores one and
\* emits a token derived from it in the response header; on a session that
\* has a csrfSecret it never replaces it, so every token issued earlier for
\* the session is still accepted.
C20_LazyProvisioning ==
  /\ csrfLast.kind = "safe" =>
       /\ csrfSecret \in CsrfSecrets
       /\ csrfLast.header.secret = csrfSecret
       /\ csrfLast.header \in csrfIssued
       /\ csrfLast.secretBefore # Absent => csrfSecret = csrfLast.secretBefore
  /\ \A token \in csrfIssued :
       token.secret = csrfSecret /\ token.salt \in 1..MaxSalts

C20_Witness ==
  /\ csrfLast.kind = "safe"
  /\ csrfLast.secretBefore # Absent
  /\ Cardinality(csrfIssued) = 2
  /\ csrfLast.header \in csrfIssued

\* C21: a request of any method whose path is on the allow-list (health,
\* info, IdP callback), including a state-changing one that carries no
\* token, bypasses the CSRF guard: next() is called and no 403 is produced.
C21_AllowList ==
  (/\ csrfLast.kind \in {"skip", "safe", "unsafe"}
   /\ csrfLast.path \in {"/api/v1/health", "/api/v1/info", "/api/v1/auth/callback"}) =>
    /\ csrfLast.next
    /\ csrfLast.status = 0
    /\ csrfLast.code = ""
    /\ csrfSecret = csrfLast.secretBefore

C21_Witness ==
  /\ csrfLast.method = "POST"
  /\ csrfLast.path = "/api/v1/auth/callback"
  /\ csrfLast.channel = "none"
  /\ csrfLast.secretBefore = Absent
  /\ csrfLast.next

\* ------------------------------------------------------------------------
\* Properties of the API gateway
\* ------------------------------------------------------------------------
\* the requested path contains the parent-directory token
HasParentToken(splat) ==
  LET raw == IF splat.t = "array" THEN Join(splat.segs) ELSE splat.s
  IN  \E k \in 1..(Len(raw) - 1) : raw[k] = "." /\ raw[k + 1] = "."

\* proxying failed: no token, no answer from the backend, or a body that
\* does not parse
ProxyFailed ==
  \/ gw.tokenOutcome = "rejected"
  \/ gw.upstream.net
  \/ gw.upstream # NoUpstream /\ ~gw.upstream.net /\ ~gw.upstream.body.isJson

C23_BearerInjection ==
  gw.outbound > 0 =>
    /\ gw.token # NoToken
    /\ "Authorization" \in DOMAIN gw.sent
    /\ gw.sent["Authorization"] = HeaderValue("Bearer", gw.token)

\* C24 as stated: for every response the backend returns, proxyRequest
\* resolves to the upstream status and body and the route answers with them.
C24_Transparency ==
  (gw.stage = "done" /\ gw.upstream # NoUpstream /\ ~gw.upstream.net) =>
    /\ ~gw.result.threw
    /\ gw.result.status = gw.upstream.status
    /\ gw.via = "route" => gw.status = gw.upstream.status

\* C24 amended: for every response the backend returns whose body parses as
\* JSON, proxyRequest resolves without throwing to the upstream status and
\* the parsed body, and the route answers with that status and body; a
\* response whose body is not JSON makes proxyRequest throw.
C24_TransparencyJson ==
  (gw.stage = "done" /\ gw.upstream # NoUpstream /\ ~gw.upstream.net) =>
    IF gw.upstream.body.isJson
    THEN /\ ~gw.result.threw
         /\ gw.result.status = gw.upstream.status
         /\ gw.result.data = gw.upstream.body.value
         /\ gw.via = "route" =>
               /\ gw.status = gw.upstream.status
               /\ gw.body = gw.upstream.body.value
               /\ gw.responses = 1
    ELSE gw.result.threw

C24_Witness ==
  /\ gw.via = "route"
  /\ gw.stage = "done"
  /\ gw.upstream.status = 404
  /\ gw.upstream.body.text = "{ \"id\": 1 }"
  /\ gw.status = 404

\* C25: when the token acquisition, the outbound fetch or the parsing of the
\* upstream body fails, the route answers 502 BAD_GATEWAY, exactly once, and
\* nothing is retried: one getAccessToken call, at most one token fetch and
\* at most one outbound call per request.
C25_UpstreamFailure ==
  gw.via = "route" =>
    /\ gw.responses <= 1
    /\ gw.tokenCalls <= 1
    /\ gw.outbound <= 1
    /\ nFetch - gw.fetchesBefore <= 1
    /\ ProxyFailed =>
         /\ gw.stage = "done"
         /\ gw.responses = 1
         /\ gw.status = 502
         /\ gw.code = "BAD_GATEWAY"

C25_Witness ==
  /\ gw.via = "route"
  /\ gw.tokenOutcome = "rejected"
  /\ gw.status = 502
  /\ gw.outbound = 0

\* C26: for a data/* request a token fetch or a call to the private backend
\* happens only after requireAuth validated the session principal of that
\* request; a request whose session principal is absent or invalid causes no
\* outbound call.
C26_AuthGate ==
  /\ (gw.via = "route" /\ (gw.tokenCalls > 0 \/ gw.outbound > 0)) =>
       /\ "requireAuth" \in mwRan
       /\ ~mwRes.sent
       /\ PrincipalShaped(mwReq.sessUser)
       /\ mwReq.user # Unattached
  /\ (mwStage # "idle" /\ ~PrincipalShaped(mwReq.sessUser)) => gw.via # "route"

C26_Witness ==
  /\ gw.via = "route"
  /\ gw.outbound = 1
  /\ mwRan = {"requireAuth"}
  /\ mwReq.user # Unattached

\* ------------------------------------------------------------------------
\* AuthService and mock driver claims
\* ------------------------------------------------------------------------
\* C27: the driver is selected once, when the AuthService is constructed.
\* The name mock, or no name, selects the mock driver; saml selects the
\* federated driver; any other name makes construction throw the
\* unsupported-driver error, so a service with such a name handles no
\* request.  Afterwards login, callback, logout, getCurrentUser and hasRole
\* all reach the one driver that was selected.
C27_DriverSelection ==
  svc.stage # "unbuilt" =>
    LET name == svc.env.AUTH_DRIVER
    IN /\ (~Configured(name) \/ name.s = <<"mock">>) => svc.selected = "mock"
       /\ (Configured(name) /\ name.s = <<"saml">>) =>
             svc.selected = "saml" /\ svc.driver = "saml" /\ svc.stage = "built"
       /\ (Configured(name) /\ name.s \notin {<<"mock">>, <<"saml">>}) =>
             /\ svc.stage = "threw"
             /\ svc.error = "Unsupported auth driver"
             /\ svc.driver = "none"
       /\ svc.stage = "threw" => svc.last = NoDelegation /\ svc.handledBy = {}
       /\ svc.handledBy \subseteq {svc.selected}
       /\ svc.last.op # "none" => svc.stage = "built" /\ svc.last.to = svc.selected

\* a federated service has served hasRole after a callback, all on one driver
C27_Witness ==
  /\ svc.stage = "built"
  /\ svc.env.AUTH_DRIVER = EnvStr(<<"saml">>)
  /\ svc.last.op = "hasRole"
  /\ svc.last.to = "saml"
  /\ svc.handledBy = {"saml"}
  /\ pc = "resolved"

\* C28: the callback URL is that of the first configured source in the
\* order AUTH_CALLBACK_URL, API_URL followed by /api/v1/auth/callback,
\* RENDER_EXTERNAL_URL followed by the suffix, https:// and
\* RENDER_EXTERNAL_HOSTNAME followed by the suffix, and last host and port,
\* with https exactly in production and the port present exactly when the
\* host is a loopback host or the process is not in production; sources
\* after the first configured one have no influence.
C28_CallbackUrlPriority ==
  svc.stage # "unbuilt" =>
    LET e == svc.env
        url == svc.callbackUrl
        Suffixed(src) == StripTrailingSlash(src) \o CALLBACK_PATH
        production == e.NODE_ENV = EnvStr(<<"production">>)
        host == IF Configured(e.HOST) THEN e.HOST.s ELSE <<"localhost">>
        port == IF Configured(e.PORT) THEN e.PORT.s ELSE <<"3000">>
        loopback == host \in {<<"localhost">>, <<"127.0.0.1">>}
    IN IF Configured(e.AUTH_CALLBACK_URL) THEN url = e.AUTH_CALLBACK_URL.s
       ELSE IF Configured(e.API_URL) THEN url = Suffixed(e.API_URL.s)
       ELSE IF Configured(e.RENDER_EXTERNAL_URL)
            THEN url = Suffixed(e.RENDER_EXTERNAL_URL.s)
       ELSE IF Configured(e.RENDER_EXTERNAL_HOSTNAME)
            THEN url = <<"https", "://">> \o e.RENDER_EXTERNAL_HOSTNAME.s
                         \o CALLBACK_PATH
       ELSE /\ url[1] = "https" <=> production
            /\ url[1] = "http" <=> ~production
            /\ url = <<url[1], "://">> \o host
                       \o (IF loopback \/ ~production THEN <<":">> \o port
                           ELSE <<>>)
                       \o CALLBACK_PATH

\* every source is configured and the explicit URL is the result
C28_Witness ==
  /\ svc.stage = "built"
  /\ Configured(svc.env.AUTH_CALLBACK_URL)
  /\ Configured(svc.env.API_URL)
  /\ Configured(svc.env.RENDER_EXTERNAL_URL)
  /\ Configured(svc.env.RENDER_EXTERNAL_HOSTNAME)
  /\ Configured(svc.env.HOST)
  /\ svc.callbackUrl = svc.env.AUTH_CALLBACK_URL.s

\* the identity a mock callback with this selector must produce
ExpectedMockUser(selector) ==
  IF selector \in {MockUsers[k] : k \in DOMAIN MockUsers} THEN selector
  ELSE MockUsers[1]

\* what holds of a mock callback whatever its outcome: the identity handed
\* to the session-save protocol is the expected one, and a callback that
\* returned has returned the principal now in the regenerated, saved session
MockCallbackSaves ==
  /\ userArg = ExpectedMockUser(svc.last.selector)
  /\ svc.last.outcome = "returned" =>
       /\ svc.last.result = userArg
       /\ sess.user = userArg
       /\ store[sess.id].user = userArg
       /\ sess.id \notin PreIds
       /\ saveCalls = 1

C30_MockProductionGuard ==
  (svc.stage # "unbuilt" /\ svc.env.NODE_ENV = EnvStr(<<"production">>)) =>
    LET name == svc.env.AUTH_DRIVER
    IN /\ (~Configured(name) \/ name.s = <<"mock">>) =>
             /\ svc.stage = "threw"
             /\ svc.error = "MockAuthDriver cannot be used in production"
             /\ svc.driver = "none"
       /\ \A k \in DOMAIN MockUsers :
             /\ sess.user # MockUsers[k]
             /\ userArg # MockUsers[k]
             /\ \A i \in SessionIds : store[i].user # MockUsers[k]

\* production, no driver named: construction threw the guard's error
C30_Witness ==
  /\ svc.stage = "threw"
  /\ svc.env.NODE_ENV = EnvStr(<<"production">>)
  /\ svc.env.AUTH_DRIVER = Unset
  /\ svc.error = "MockAuthDriver cannot be used in production"
  /\ pc = "idle"

\* C31: whenever the driver's callback rejected, on an invalid assertion or
\* on a failed session save, the callback endpoint logs auth.callback.failed
\* and answers with a redirect to login?error=auth_failed, never a 500 and
\* never the success redirect; the redirect to /profile is sent only after
\* the driver's callback resolved.
C31_FailureSurfacing ==
  svc.http # NoHttp =>
    /\ svc.http.status = 302
    /\ svc.http.after = "rejected" =>
          /\ svc.http.event = "auth.callback.failed"
          /\ svc.http.location = "/login?error=auth_failed"
    /\ svc.http.location = "/profile" =>
          /\ svc.http.after = "returned"
          /\ svc.http.event = "auth.callback.success"
          /\ pc = "resolved"
    /\ (svc.http.after = "rejected") <=>
          (pc \in {"rejectedRegen", "rejectedSave"}
           \/ (pc = "idle" /\ svc.driver = "saml"))

\* the session save failed and the endpoint redirected to the failure page
C31_Witness ==
  /\ pc = "rejectedSave"
  /\ svc.http.after = "rejected"
  /\ svc.http.event = "auth.callback.failed"
  /\ svc.http.location = "/login?error=auth_failed"

\* C32: parseOAuthClientConfig returns null, without an error, when none of
\* the four OAuth variables is set; while the OAuth config is null or the
\* private base URL is unset, every data/* request is answered 503
\* GATEWAY_NOT_CONFIGURED, and no token is fetched and no outbound call made.
C32_GatewayDisabled ==
  gwCfg.stage # "unloaded" =>
    LET e == gwCfg.env
        noneSet == /\ ~Configured(e.OAUTH_TENANT_ID) /\ ~Configured(e.OAUTH_CLIENT_ID)
                   /\ ~Configured(e.OAUTH_CLIENT_SECRET) /\ ~Configured(e.OAUTH_SCOPE)
    IN /\ noneSet => gwCfg.stage = "loaded" /\ gwCfg.oauthConfig.kind = "null"
       /\ (gwCfg.stage = "loaded"
            /\ (gwCfg.oauthConfig.kind = "null"
                \/ ~Configured(gwCfg.env.PRIVATE_API_BASE_URL))) =>
             /\ mwStage = "closed" =>
                   /\ mwRes.status = 503
                   /\ mwRes.code = "GATEWAY_NOT_CONFIGURED"
             /\ mwRan \subseteq {"gatewayConfigured"}
             /\ gw = NoGw
             /\ nFetch = 0
             /\ \A c \in Callers : calls[c].state = "idle"

\* OAuth is configured, the base URL is not: an authenticated request got 503
C32_Witness ==
  /\ gwCfg.stage = "loaded"
  /\ gwCfg.oauthConfig.kind = "config"
  /\ ~Configured(gwCfg.privateApiBaseUrl)
  /\ ~Falsy(mwReq.sessUser)
  /\ mwStage = "closed"
  /\ mwRes.status = 503
  /\ mwRes.code = "GATEWAY_NOT_CONFIGURED"
  /\ nFetch = 0

\* ------------------------------------------------------------------------
\* Properties of one browser session through successive requests
\* ------------------------------------------------------------------------
\* the session the request holds is the one a successful callback saved
AfterLogin == pc = "idle" /\ saveCalls > 0 /\ sess.user # Absent /\ ~svc.loggedOut

\* C33: a CSRF token issued by a safe request on a session before
\* authentication is still accepted on a state-changing request after a
\* successful callback regenerated the session's identifier: every token
\* issued to the session verifies against the secret of the regenerated
\* session, and the guard passes a state-changing request presenting one.
C33_CsrfContinuity ==
  AfterLogin =>
    /\ \A tok \in csrfIssued : VerifyToken(csrfSecret, tok)
    /\ (csrfLast.kind = "unsafe" /\ csrfLast.token \in csrfIssued)
         => (csrfLast.next /\ csrfLast.status # 403)

C33_Witness ==
  /\ AfterLogin
  /\ sess.id # 1
  /\ csrfIssued # {}
  /\ csrfLast.kind = "unsafe"
  /\ csrfLast.token \in csrfIssued
  /\ csrfLast.next


C36_LogoutLifecycle ==
  /\ svc.last.op = "logout" =>
       /\ svc.http.responses = 1
       /\ svc.last.outcome = "returned" =>
            (~store[sess.id].exists /\ sess.user = Absent /\ svc.loggedOut)
  /\ svc.loggedOut =>
       /\ pc = "idle" => sess.user = Absent
       /\ "requireAuth" \in mwRan =>
            (mwRes.sent /\ mwRes.status = 401 /\ mwReq.user = Unattached)

\* C38: lastAuthAt is written only by a successful saveUserToSession: the
\* authorization middleware leaves the lastAuthAt of the request's session
\* unchanged, the store's lastAuthAt of a session takes a new value only in
\* the step in which a callback's save succeeds, that value is not earlier
\* than any the store held, and so a session that requireRecentAuth rejects
\* as stale stays rejected until a new callback succeeds.
C38_LastAuthAt ==
  [][ /\ mwStage # "idle" => mwReq'.lastAuthAt = mwReq.lastAuthAt
      /\ \A i \in SessionIds :
           (pc # "none" /\ store'[i].lastAuthAt # store[i].lastAuthAt
                        /\ store'[i].lastAuthAt # NoTime)
             => /\ pc = "saving" /\ pc' = "resolved"
                /\ \A j \in SessionIds :
                     store[j].lastAuthAt <= store'[i].lastAuthAt
      /\ (pc \notin {"none", "idle"} /\ pc' = "idle"
             /\ sess'.lastAuthAt # NoTime
             /\ sess'.lastAuthAt # pre.sess.lastAuthAt)
           => pc = "resolved"
    ]_vars


\* C35: an authenticated request with a valid path on data/* is proxied to
\* the private backend for any of the methods GET, POST, PUT, PATCH and
\* DELETE, with that method forwarded unchanged.
C35_MethodCoverage ==
  (/\ gw.via \in {"route", "unrouted"}
   /\ gw.method \in RequestMethods
   /\ ~sanitizePath(gw.splat).isNull)
    => /\ gw.tokenCalls = 1
       /\ gw.forwarded = gw.method
       /\ gw.code # "NOT_FOUND"


\* ------------------------------------------------------------------------
\* Properties of the web client's auth store
\* ------------------------------------------------------------------------
\* C37: while one fetchUser request is in flight every further fetchUser
\* call is handed the same pending promise and no further HTTP request is
\* issued; when the request settles the in-flight marker is cleared and
\* loading is false, a 401 clears the user and leaves the error as it was,
\* any other failure sets the error and leaves the user unchanged, and a
\* successful response sets the user.
C37_FetchUserDedup ==
  [][ /\ \A c \in Callers :
           (client.held[c] = 0 /\ client'.held[c] # 0 /\ client.fetchPromise # 0)
             => /\ client'.held[c] = client.fetchPromise
                /\ client.promises[client.fetchPromise].state = "pending"
                /\ client'.requests = client.requests
                /\ client'.promises = client.promises
      /\ \A r \in MeRequests :
           (client.promises[r].state = "pending"
              /\ client'.promises[r].state = "resolved")
             => /\ client'.fetchPromise = 0
                /\ ~client'.loading
                /\ (client'.last.kind = "error" /\ client'.last.status = 401)
                     => (client'.user = Absent /\ client'.error = client.error)
                /\ (client'.last.kind = "network"
                      \/ (client'.last.kind = "error" /\ client'.last.status # 401))
                     => /\ client'.error # Absent
                        /\ client'.error =
                             (IF client'.last.message # ""
                              THEN client'.last.message
                              ELSE "Failed to fetch user")
                        /\ client'.user = client.user
                /\ (client'.last.kind = "ok" /\ client'.last.success)
                     => client'.user = client'.last.user
    ]_vars

C37_Witness ==
  /\ client.requests = 1
  /\ \A c \in Callers : client.held[c] = 1
  /\ client.promises[1].state = "resolved"
  /\ client.last.status = 401
  /\ client.fetchPromise = 0
  /\ ~client.loading

\* ------------------------------------------------------------------------
\* Properties of the token cache with two client configurations
\* ------------------------------------------------------------------------
\* C39: getAccessToken(config) returns only a token obtained from a token
\* request made with that same config: a call with one configuration never
\* awaits a fetch made with another one, and is never handed a token that
\* was requested with another one.
C39_ConfigBinding ==
  \A c \in Callers :
    /\ calls[c].state = "waiting" => cfgOf.fetch[calls[c].awaits] = cfgOf.call[c]
    /\ calls[c].state = "resolved" => cfgOf.got[c] = cfgOf.call[c]

\* ------------------------------------------------------------------------
\* Progress of the token cache
\* ------------------------------------------------------------------------
\* C40: provided every issued token fetch eventually completes, every
\* getAccessToken call eventually resolves or rejects and the in-flight
\* marker eventually returns to empty; the marker never stands for a fetch
\* that has failed or completed.
C40_Progress ==
  /\ [](fetchPromise # NoFetch => fetches[fetchPromise] = "pending")
  /\ \A c \in Callers :
       (calls[c].state = "waiting") ~> (calls[c].state \in {"resolved", "rejected"})
  /\ (fetchPromise # NoFetch) ~> (fetchPromise = NoFetch)

C40_Witness ==
  /\ fetchPromise = NoFetch
  /\ \E f \in FetchIds : fetches[f] = "failed"
  /\ \E c \in Callers : calls[c].state = "rejected" /\ calls[c].source = "shared"

====
